---- MODULE Spec2Model ----
(***************************************************************************)
(* A state-machine model of oracle's atomic-transition profile fitter:    *)
(* AtomicTransition.fit_profile (src/oracle/models/transitions.py) and    *)
(* the objective function chi_sq it builds.                                *)
(*                                                                         *)
(* Units.  Wavelengths are integers in units of half a pixel: the          *)
(* supplied spectrum has pixels at 2, 4, ..., 2*PixCount, so a transition *)
(* can sit on a pixel (even wavelength) or between two pixels (odd).       *)
(* Parameter values are integers in units of 1/One: line_depth = One is   *)
(* the value 1.0 of the code.  The float NaN is the value nan.            *)
(*                                                                         *)
(* Real arithmetic that the code delegates to numpy/scipy (polyfit, the   *)
(* Gaussian, the standard deviation, the simplex search) is not computed: *)
(* its outcome is drawn from the set of outcomes some spectrum produces   *)
(* (which pixels are flagged, which side of the line crosses the half     *)
(* depth, which accepted point the optimiser ends on).  Everything the    *)
(* code itself decides (guards, masks, slices, dictionary keys, the       *)
(* order of statements, what is stored on the transition) is computed.    *)
(***************************************************************************)
EXTENDS Integers, Sequences, FiniteSets, TLC

\* Number of pixels of the supplied spectrum.
PixCount == 5

\* Number of fit_profile calls made on the transition.
MaxCalls == 2

\* Number of evaluations of the objective inside one run of the optimiser.
MaxFunCalls == 2

\* Number of pixels of the spectrum given to a ProfileFitter.
FitPixels == 9

\* Number of fit calls made on one fitter.
MaxFits == 2

\* The value 1.0 in parameter units (line_depth must lie in (0, One)).
One == 2

\* np.nan, the invalid sentinel and the only non-finite float of the model.
nan == 999

VARIABLES
    self,                   \* the AtomicTransition object
    pc,                     \* position of the current fit_profile call
    outcome,                \* how the last call ended ("none", "returned", or the error)
    calls,                  \* number of fit_profile calls started
    arg,                    \* the call's arguments (as read so far)
    data,                   \* the local `data` (the spectrum, then its slice)
    parameters,             \* the local list `parameters`
    missing_parameters,     \* the local set `missing_parameters`
    theta,                  \* the local dict `theta`
    finite,                 \* the local array `finite`
    continuum_mask,         \* the local array `continuum_mask`
    aliased,                \* continuum_mask and finite are the same array object
    loop,                   \* loop locals: kk, iterate_on_continuum, bound names
    blending_spectrum,      \* the local `blending_spectrum`
    opt,                    \* seed, optimiser and result locals
    hist,                   \* history of the call (what has been invoked, round records)
    start,                  \* the transition as it was when the call started
    scope,                  \* "call": one call, every input; "sequence": several calls
    parser,                 \* the construction of a transition from a species specifier
    fitter,                 \* a ProfileFitter or ProfileMixtureFitter and its fit calls
    synthesise_kwargs,      \* the dict the caller passes as synthesise_kwargs
    reads,                  \* the caller's latest read of reduced_equivalent_width
    cache,                  \* an lru_cache wrapper and the threads calling it
    unpacked                \* a call of unpack_atomic_transition and its result

vars == <<self, pc, outcome, calls, arg, data, parameters, missing_parameters,
          theta, finite, continuum_mask, aliased, loop, blending_spectrum, opt, hist,
          start, scope,
                   parser, fitter, synthesise_kwargs, reads, cache, unpacked>>

-----------------------------------------------------------------------------
(* Generic helpers *)

Range(s) == {s[i] : i \in DOMAIN s}

Min(S) == CHOOSE x \in S : \A y \in S : x <= y

\* Python float comparisons: any comparison with NaN is False.
Gt(a, b) == a # nan /\ b # nan /\ a > b
Lt(a, b) == a # nan /\ b # nan /\ a < b

\* np.isfinite on a scalar
isfinite(v) == v # nan

\* The string as it is, in whatever case it was written.
lower_not_applied(s) == s

\* str.lower(), on the strings the model passes around.
lower(s) ==
    CASE s = "Gaussian"   -> "gaussian"
      [] s = "VOIGT"      -> "voigt"
      [] s = "Lorentzian" -> "lorentzian"
      [] s = "Moffat"     -> "moffat"
      [] s = "Wavelength" -> "wavelength"
      [] s = "FWHM"       -> "fwhm"
      [] OTHER            -> s

\* numpy.searchsorted(a, v) (side="left") as a 0-based index: the number of
\* elements of the sorted array a that are < v.
searchsorted(a, v) == Cardinality({i \in DOMAIN a : a[i] < v})

\* a[lo:hi] = value on a boolean array (0-based, half-open; a[lo:None] is
\* SliceAssign(a, lo, Len(a), value)).
SliceAssign(a, lo, hi, value) ==
    [i \in DOMAIN a |-> IF lo <= i - 1 /\ i - 1 < hi THEN value ELSE a[i]]

-----------------------------------------------------------------------------
(* AtomicTransition.__init__ *)

\* np.atleast_2d applied to a list of n rows of `width` entries: the shape of
\* the resulting array.  An empty list becomes an array of shape (1, 0).
atleast_2d(rows, width) ==
    IF rows = 0 THEN [rows |-> 1, cols |-> 0] ELSE [rows |-> rows, cols |-> width]

\* len() of a 2-d array
ArrayLen(a) == a.rows

\* ndarray.size
ArraySize(a) == a.rows * a.cols

\* The supplied spectrum's dispersion: pixels at 2, 4, ..., 2 * PixCount.
SpectrumDisp == [i \in 1..PixCount |-> 2 * i]

\* A spectrum of as many pixels that is sampled unevenly: its third pixel
\* lies one unit after the second.
UnevenDisp == [i \in 1..PixCount |-> IF i = 3 THEN 5 ELSE 2 * i]

WavelengthChoices == {1, 2, 5, 2 * PixCount}

\* blending_transitions as given to the constructor: None, or a list of n
\* transition records (n = 0 is the empty list).
BlendingChoices ==
    { [none |-> TRUE, n |-> 0], [none |-> FALSE, n |-> 0], [none |-> FALSE, n |-> 1] }

\* continuum_regions as given to the constructor: None or a list of
\* [start, end] pairs.
RegionChoices ==
    { <<>>,
      << <<4, 10>> >>,
      << <<40, 44>>, <<4, 10>> >>,
      << <<40, 44>> >> }

\* mask as given to the constructor: None or a list of [start, end] pairs.
MaskChoices ==
    { [none |-> TRUE, intervals |-> <<>>], [none |-> FALSE, intervals |-> << <<8, 8>> >>] }

AtomicTransition(wavelength, blending_transitions, mask, continuum_regions) ==
    [ wavelength           |-> wavelength,
      blending_transitions |-> IF blending_transitions.none
                                 THEN [none |-> TRUE, rows |-> 0, cols |-> 0]
                                 ELSE [none |-> FALSE] @@ atleast_2d(blending_transitions.n, 4),
      mask                 |-> mask,
      continuum_regions    |-> continuum_regions,
      equivalent_width     |-> [set |-> FALSE, v |-> 0],
      profile              |-> [set |-> FALSE, optimal_theta |-> <<>>, op_info |-> <<>>] ]

NoBlending == [none |-> TRUE, n |-> 0]
NoMask == [none |-> TRUE, intervals |-> <<>>]

\* The transitions the model constructs: every wavelength with every
\* continuum_regions, without and with one blending transition; an empty list
\* of blending transitions and a mask are tried on a transition without
\* continuum regions.
Transitions ==
    { AtomicTransition(w, b, NoMask, r) :
        w \in WavelengthChoices, b \in BlendingChoices \ {[none |-> FALSE, n |-> 0]},
        r \in RegionChoices }
    \cup { AtomicTransition(w, [none |-> FALSE, n |-> 0], NoMask, <<>>) :
            w \in WavelengthChoices }
    \cup { AtomicTransition(w, NoBlending, m, <<>>) :
            w \in WavelengthChoices, m \in MaskChoices }

\* self.continuum_regions.size
RegionsSize(t) == 2 * Len(t.continuum_regions)

-----------------------------------------------------------------------------
(* Species parsing: _parse_species, _parse_ionisation_level, and the         *)
(* periodic-table lookups atomic_number and element of oracle.utils          *)

\* Python values of the parser: a string is the sequence of its characters,
\* a float near k/10 is the double nearest to k/10 with the sign of its
\* representation error, and the ValueError object is a value like any other.
PyNone == [t |-> "None"]
PyInt(n) == [t |-> "int", v |-> n]
PyFloat(k, e) == [t |-> "float", tenths |-> k, err |-> e]
PyStr(s) == [t |-> "str", s |-> s]
PyList == [t |-> "list"]
ValueErrorObject == [t |-> "ValueError"]

\* The result of a call: the exception it raised ("" for none) and its value.
Returns(v) == [raised |-> "", value |-> v]
Raises(e) == [raised |-> e, value |-> PyNone]

\* Bits of the fraction of a double (the float() of line 714).
MantissaBits == 52

RECURSIVE pow2mod10(_)
pow2mod10(n) == IF n = 0 THEN 1 ELSE (2 * pow2mod10(n - 1)) % 10

RECURSIVE floor_log2(_)
floor_log2(z) == IF z < 2 THEN 0 ELSE 1 + floor_log2(z \div 2)

\* The sign of (the double nearest to k/10) - k/10, for k/10 >= 1: the double
\* is a multiple of 2^-e with e = 52 - floor(log2(k/10)), and k * 2^e mod 10
\* says on which side of k/10 the nearest multiple lies.
float_error(k) ==
    LET r == (k * pow2mod10(MantissaBits - floor_log2(k \div 10))) % 10
    IN  IF r = 0 THEN 0 ELSE IF r < 5 THEN -1 ELSE 1

nearest_double(k) == PyFloat(k, float_error(k))

Digits == <<"0", "1", "2", "3", "4", "5", "6", "7", "8", "9">>

digit(c) == (CHOOSE i \in DOMAIN Digits : Digits[i] = c) - 1

is_digits(s) == Len(s) > 0 /\ \A i \in DOMAIN s : s[i] \in Range(Digits)

RECURSIVE digits_value(_)
digits_value(s) ==
    IF Len(s) = 0 THEN 0
    ELSE 10 * digits_value(SubSeq(s, 1, Len(s) - 1)) + digit(s[Len(s)])

\* int(x) of Python 2: truncation of a float, the digits of a string, and a
\* TypeError for anything that is not a number or a string.
int(x) ==
    CASE x.t = "int" -> Returns(x.v)
      [] x.t = "float" -> Returns(x.tenths \div 10)
      [] x.t = "str" -> IF is_digits(x.s) THEN Returns(digits_value(x.s))
                        ELSE Raises("ValueError")
      [] OTHER -> Raises("TypeError")

\* float(x): a decimal numeral with at most one digit after the point is
\* converted to the nearest double; other strings raise ValueError, and
\* values that are neither numbers nor strings raise TypeError.
float(x) ==
    CASE x.t = "int" -> Returns(nearest_double(10 * x.v))
      [] x.t = "float" -> Returns(x)
      [] x.t = "str" ->
            LET s == x.s
                points == {i \in DOMAIN s : s[i] = "."}
            IN  IF is_digits(s) THEN Returns(nearest_double(10 * digits_value(s)))
                ELSE IF /\ Cardinality(points) = 1
                        /\ Len(s) >= 3
                        /\ s[Len(s) - 1] = "."
                        /\ is_digits(SubSeq(s, 1, Len(s) - 2))
                        /\ s[Len(s)] \in Range(Digits)
                     THEN Returns(nearest_double(
                              10 * digits_value(SubSeq(s, 1, Len(s) - 2)) + digit(s[Len(s)])))
                     ELSE Raises("ValueError")
      [] OTHER -> Raises("TypeError")

Lowercase == <<"a", "b", "c", "d", "e", "f", "g", "h", "i", "j", "k", "l", "m",
               "n", "o", "p", "q", "r", "s", "t", "u", "v", "w", "x", "y", "z">>

Uppercase == <<"A", "B", "C", "D", "E", "F", "G", "H", "I", "J", "K", "L", "M",
               "N", "O", "P", "Q", "R", "S", "T", "U", "V", "W", "X", "Y", "Z">>

upper(s) ==
    [i \in DOMAIN s |->
        IF s[i] \in Range(Lowercase)
        THEN Uppercase[CHOOSE j \in DOMAIN Lowercase : Lowercase[j] = s[i]]
        ELSE s[i]]

count(s, c) == Cardinality({i \in DOMAIN s : s[i] = c})

\* str.split(): the words between runs of blanks.
RECURSIVE split(_)
split(s) ==
    IF Len(s) = 0 THEN <<>>
    ELSE IF s[1] = " " THEN split(Tail(s))
    ELSE LET blanks == {i \in DOMAIN s : s[i] = " "}
             stop == IF blanks = {} THEN Len(s) + 1 ELSE Min(blanks)
         IN  <<SubSeq(s, 1, stop - 1)>> \o split(SubSeq(s, stop, Len(s)))

periodic_table ==
    <<
    <<"H">>, <<"H", "e">>, <<"L", "i">>, <<"B", "e">>, <<"B">>, <<"C">>, <<"N">>,
    <<"O">>, <<"F">>, <<"N", "e">>, <<"N", "a">>, <<"M", "g">>, <<"A", "l">>,
    <<"S", "i">>, <<"P">>, <<"S">>, <<"C", "l">>, <<"A", "r">>, <<"K">>, <<"C", "a">>,
    <<"S", "c">>, <<"T", "i">>, <<"V">>, <<"C", "r">>, <<"M", "n">>, <<"F", "e">>,
    <<"C", "o">>, <<"N", "i">>, <<"C", "u">>, <<"Z", "n">>, <<"G", "a">>, <<"G", "e">>,
    <<"A", "s">>, <<"S", "e">>, <<"B", "r">>, <<"K", "r">>, <<"R", "b">>, <<"S", "r">>,
    <<"Y">>, <<"Z", "r">>, <<"N", "b">>, <<"M", "o">>, <<"T", "c">>, <<"R", "u">>,
    <<"R", "h">>, <<"P", "d">>, <<"A", "g">>, <<"C", "d">>, <<"I", "n">>, <<"S", "n">>,
    <<"S", "b">>, <<"T", "e">>, <<"I">>, <<"X", "e">>, <<"C", "s">>, <<"B", "a">>,
    <<"L", "a">>, <<"C", "e">>, <<"P", "r">>, <<"N", "d">>, <<"P", "m">>, <<"S", "m">>,
    <<"E", "u">>, <<"G", "d">>, <<"T", "b">>, <<"D", "y">>, <<"H", "o">>, <<"E", "r">>,
    <<"T", "m">>, <<"Y", "b">>, <<"L", "u">>, <<"H", "f">>, <<"T", "a">>, <<"W">>,
    <<"R", "e">>, <<"O", "s">>, <<"I", "r">>, <<"P", "t">>, <<"A", "u">>, <<"H", "g">>,
    <<"T", "l">>, <<"P", "b">>, <<"B", "i">>, <<"P", "o">>, <<"A", "t">>, <<"R", "n">>,
    <<"F", "r">>, <<"R", "a">>, <<"A", "c">>, <<"T", "h">>, <<"P", "a">>, <<"U">>,
    <<"N", "p">>, <<"P", "u">>, <<"A", "m">>, <<"C", "m">>, <<"B", "k">>, <<"C", "f">>,
    <<"E", "s">>, <<"F", "m">>, <<"M", "d">>, <<"N", "o">>, <<"L", "r">>, <<"R", "f">>,
    <<"D", "b">>, <<"S", "g">>, <<"B", "h">>, <<"H", "s">>, <<"M", "t">>, <<"D", "s">>,
    <<"R", "g">>, <<"C", "n">>, <<"U", "U", "t">>
    >>

\* utils.py lines 479-517.  A value that is no string raises TypeError; a
\* string that is not in the table gets the ValueError object as its return
\* value (line 515 returns it); a symbol gets its position in the table.
atomic_number(element) ==
    IF element.t # "str" THEN Raises("TypeError")
    ELSE IF element.s \notin Range(periodic_table) THEN Returns(ValueErrorObject)
    ELSE Returns(PyInt(Min({i \in DOMAIN periodic_table : periodic_table[i] = element.s})))

\* utils.py lines 520-552: int() of the argument, then Python's indexing of
\* the table at atomic_number - 1 (a negative index counts from the end).
element(number) ==
    LET n == int(number)
        N == Len(periodic_table)
        i == n.value - 1
    IN  IF n.raised # "" THEN Raises(n.raised)
        ELSE IF i >= N \/ i < 0 - N THEN Raises("IndexError")
        ELSE Returns(PyStr(periodic_table[(i % N) + 1]))

\* Lines 689-703.
_parse_ionisation_level(ionisation_level) ==
    IF ionisation_level.t = "int" THEN Returns(ionisation_level)
    ELSE LET up == upper(ionisation_level.s)
         IN  IF "I" \in Range(up) THEN Returns(PyInt(count(up, "I")))
             ELSE LET n == int(PyStr(up))
                  IN  IF n.raised # "" THEN n ELSE Returns(PyInt(n.value))

\* Line 734: int(10 * (species - atomic_number)) + 1 in double arithmetic.
\* The subtraction is exact, so the difference carries the representation
\* error of species; ten times a difference that lies below f/10 lies below
\* f, and int() truncates it to f - 1.
decode_ionisation(species, number) ==
    LET f == species.tenths - 10 * number
    IN  (IF species.err < 0 THEN f - 1 ELSE f) + 1

\* What _parse_species returns: the 4-tuple of lines 728 and 736.
Parsed(el, number, level, species) ==
    [element |-> el, atomic_number |-> number, ionisation_level |-> level,
     species |-> species]

\* Lines 706-736.
_parse_species(species) ==
    IF species = PyNone THEN Returns(Parsed(PyNone, PyNone, PyNone, PyNone))
    ELSE
    LET f == float(species)
    IN  IF f.raised # ""
        THEN \* lines 716-728: the species is taken to be an element string
             LET number == atomic_number(species)
                 el == element(number.value)
                 words == split(species.s)
                 level == IF " " \in Range(species.s)
                          THEN IF Len(words) < 2 THEN Raises("IndexError")
                               ELSE _parse_ionisation_level(PyStr(words[2]))
                          ELSE Returns(PyInt(1))
             IN  IF number.raised # "" THEN Raises(number.raised)
                 ELSE IF el.raised # "" THEN Raises(el.raised)
                 ELSE IF level.raised # "" THEN Raises(level.raised)
                 ELSE Returns(Parsed(el.value, number.value, level.value,
                                     nearest_double(10 * number.value.v + level.value.v)))
        ELSE \* lines 731-736: a numeric code
             LET el == element(f.value)
                 number == f.value.tenths \div 10
             IN  IF el.raised # "" THEN Raises(el.raised)
                 ELSE Returns(Parsed(el.value, PyInt(number),
                                     PyInt(decode_ionisation(f.value, number)), f.value))

\* The construction of a transition (lines 45-47 store the parser's tuple),
\* the construction of a second transition from the species code of the
\* first, and a direct call of utils.atomic_number.
Unset == [raised |-> "unset", value |-> PyNone]

\* No lru_cache wrapper has been made.
NoCache == [pc |-> "none"]

\* unpack_atomic_transition has not been called.
NotUnpacked == [pc |-> "none"]

Construction(species) ==
    [pc |-> "construct", species |-> species, result |-> Unset, again |-> Unset,
     lookup |-> Unset]

\* A transition constructed without a species (the default of line 26).
Unspecified ==
    [pc |-> "constructed", species |-> PyNone, result |-> _parse_species(PyNone),
     again |-> Unset, lookup |-> Unset]

\* One call of fit: its arguments, how it ended, whether it came to mask its
\* pixels, the pixels mask_data masked, the pixels of the two fits and the
\* pixels the clipping found deviating; and for comparison the pixels the
\* same call masks on the fitter as constructed, and how the same call ends
\* and what it fits on a fitter of the other class.
NoFit ==
    [wavelength |-> 0, mask |-> NoMask, kwargs |-> <<>>, outcome |-> "none",
     reached |-> FALSE, masked |-> {}, used |-> {}, second |-> FALSE, used_b |-> {},
     deviating |-> {}, as_constructed |-> {},
     other |-> [outcome |-> "none", used |-> {}]]

\* No fitter has been constructed.
NoFitter ==
    [pc |-> "none", kind |-> "", _default_kwargs |-> <<>>, constructed |-> <<>>,
     flux_finite |-> <<>>, fits |-> 0, last |-> NoFit]

-----------------------------------------------------------------------------
(* fit_profile: arguments and call frame *)

Unread == [t |-> "unread", v |-> 0]

\* The inputs a step draws: every one of `every` when a single call is
\* explored, those of `few` when sequences of calls are.
Inputs(every, few) == IF scope = "call" THEN every ELSE every \cap few

NoArg == [ is_spectrum |-> TRUE, kind_given |-> "unread", kind |-> "unread",
           continuum_order_given |-> Unread, continuum_order |-> Unread,
           surrounding |-> Unread, constrain_given |-> {}, constrain_keys |-> {},
           constrain_parameters |-> <<>>,
           stellar |-> {}, initial_theta |-> <<>>, detect_nearby_lines |-> TRUE,
           full_output |-> FALSE ]

NoLoop == [ kk |-> 0, iterate_on_continuum |-> FALSE,
            coefficients |-> "unbound", continuum_at_wavelength |-> "unbound",
            tolerance |-> "none",       \* tolerance the latest line_depth estimate used
            kwargs |-> "unread" ]       \* initial_line_depth_tolerance in **kwargs

\* One evaluation of the objective: the vector, the mode and what came back.
NoEval == [ x |-> <<>>, full_output |-> FALSE, result |-> "none" ]

NoOpt == [ p0 |-> <<>>,             \* the seed vector
           sim0 |-> <<>>,           \* the optimiser's best vertex
           p1 |-> <<>>,             \* the vector fmin returned
           eval |-> NoEval,         \* the latest evaluation of the objective
           num_funcalls |-> 0, num_iter |-> 0, warnflag |-> 0,
           returned |-> <<>> ]      \* the dictionary handed back to the caller

NoRound == [ ran |-> FALSE, is_outlier |-> <<>>, before |-> <<>>, after |-> <<>> ]

\* One invocation of the synthesiser: the region and the keywords it was
\* given, the finest pixel spacing of the call's data, and which dict the
\* caller passed as synthesise_kwargs.
NoSynthesis ==
    [region |-> <<0, 0>>, oversample |-> 0, wavelength_step |-> 0, pixel_size |-> 0,
     passed |-> "none"]

NoHist == [ sliced |-> FALSE, synthesised |-> 0, optimiser |-> 0,
            synthesis |-> NoSynthesis,  \* the synthesiser's invocation
            rounds |-> 0,           \* rounds of the refinement loop completed
            fit_round |-> -1,       \* round of the latest continuum polynomial fit
            used |-> {},            \* pixels that fit used
            excluded |-> {},        \* pixels the masker excluded in the latest round
            masker |-> NoRound,     \* the masker's latest run
            fwhm_side |-> "none" ]  \* how the latest FWHM estimate was made

Init ==
    /\ self \in Transitions
    /\ pc = "idle"
    /\ outcome = "none"
    /\ calls = 0
    /\ arg = NoArg
    /\ data = [disp |-> SpectrumDisp, flux_finite |-> <<>>, ivar_finite |-> <<>>]
    /\ parameters = <<>>
    /\ missing_parameters = {}
    /\ theta = <<>>
    /\ finite = <<>>
    /\ continuum_mask = <<>>
    /\ aliased = FALSE
    /\ loop = NoLoop
    /\ blending_spectrum = "unbound"
    /\ opt = NoOpt
    /\ hist = NoHist
    /\ start = self
    /\ scope = "call"
    /\ parser = Unspecified
    /\ fitter = NoFitter
    /\ synthesise_kwargs = <<>>
    /\ reads = Unset
    /\ cache = NoCache
    /\ unpacked = NotUnpacked

\* raise: the call ends, its locals are left as they were for inspection.
Raise(err) ==
    /\ pc' = "idle"
    /\ outcome' = err

\* A caller starts a call of fit_profile on the transition.
Call ==
    /\ pc = "idle"
    /\ IF scope = "call" THEN calls = 0 ELSE calls < MaxCalls
    /\ calls' = calls + 1
    /\ pc' = "check_data"
    /\ outcome' = "running"
    /\ arg' = NoArg
    /\ \E disp \in IF scope = "call" THEN {SpectrumDisp} ELSE {SpectrumDisp, UnevenDisp} :
          data' = [disp |-> disp, flux_finite |-> <<>>, ivar_finite |-> <<>>]
    /\ parameters' = <<>>
    /\ missing_parameters' = {}
    /\ theta' = <<>>
    /\ finite' = <<>>
    /\ continuum_mask' = <<>>
    /\ aliased' = FALSE
    /\ loop' = NoLoop
    /\ blending_spectrum' = "unbound"
    /\ opt' = NoOpt
    /\ hist' = NoHist
    /\ start' = self
    /\ reads' = Unset
    /\ UNCHANGED <<self, scope,
                   parser, fitter, synthesise_kwargs, cache, unpacked>>

\* The bounds check with the end points let through.
in_bounds_inclusive(disp, wavelength) ==
    disp[Len(disp)] >= wavelength /\ wavelength >= disp[1]

\* Line 216: data.disp[-1] > self.wavelength > data.disp[0]
in_bounds(disp, wavelength) ==
    disp[Len(disp)] > wavelength /\ wavelength > disp[1]

\* Lines 213-219: the type check and the bounds check.
CheckData ==
    /\ pc = "check_data"
    /\ \E is_spectrum \in Inputs(BOOLEAN, BOOLEAN) :
        /\ arg' = [arg EXCEPT !.is_spectrum = is_spectrum]
        /\ IF ~is_spectrum
             THEN Raise("TypeError")
             ELSE IF ~in_bounds(data.disp, self.wavelength)
                    THEN Raise("ValueError:out_of_bounds")
                    ELSE pc' = "check_kind" /\ UNCHANGED outcome
    /\ UNCHANGED <<self, calls, data, parameters, missing_parameters, theta, finite,
                   continuum_mask, aliased, loop, blending_spectrum, opt, hist, start, scope,
                   parser, fitter, synthesise_kwargs, reads, cache, unpacked>>

KindChoices == {"gaussian", "Gaussian", "VOIGT", "voigt", "Lorentzian", "Moffat"}

available == {"gaussian", "voigt", "lorentzian"}

\* Lines 224-230: the profile kind.
CheckKind ==
    /\ pc = "check_kind"
    /\ \E kind \in Inputs(KindChoices, {"Gaussian", "VOIGT"}) :
        /\ arg' = [arg EXCEPT !.kind_given = kind, !.kind = lower(kind)]
        /\ IF lower(kind) \notin available
             THEN Raise("ValueError:kind")
             ELSE IF lower(kind) \in {"voigt", "lorentzian"}
                    THEN Raise("NotImplementedError")
                    ELSE pc' = "check_continuum_order" /\ UNCHANGED outcome
    /\ UNCHANGED <<self, calls, data, parameters, missing_parameters, theta, finite,
                   continuum_mask, aliased, loop, blending_spectrum, opt, hist, start, scope,
                   parser, fitter, synthesise_kwargs, reads, cache, unpacked>>

\* continuum_order as the caller gives it: None, an int, a float (v in
\* halves: v = 3 is 1.5) or a string that is no number.
ContinuumOrderChoices ==
    { [t |-> "none", v |-> 0], [t |-> "int", v |-> 0], [t |-> "int", v |-> 1],
      [t |-> "int", v |-> -1], [t |-> "float", v |-> 3], [t |-> "str", v |-> 0] }

\* int(x) for a float given in halves: truncation towards zero.
IntOfHalves(h) == IF h >= 0 THEN h \div 2 ELSE -((-h) \div 2)

\* Lines 232-238: continuum_order = int(continuum_order), which must be >= 0.
CheckContinuumOrder ==
    /\ pc = "check_continuum_order"
    /\ \E given \in Inputs(ContinuumOrderChoices,
                          {[t |-> "none", v |-> 0], [t |-> "int", v |-> 0]}) :
        LET converted == IF given.t = "float" THEN IntOfHalves(given.v) ELSE given.v
        IN  IF given.t = "none"
              THEN /\ arg' = [arg EXCEPT !.continuum_order_given = given,
                                         !.continuum_order = given]
                   /\ pc' = "check_continuum_regions" /\ UNCHANGED outcome
              ELSE IF given.t = "str"
                     THEN /\ arg' = [arg EXCEPT !.continuum_order_given = given]
                          /\ Raise("TypeError:continuum_order")
                     ELSE /\ arg' = [arg EXCEPT !.continuum_order_given = given,
                                         !.continuum_order = [t |-> "int", v |-> converted]]
                          /\ IF converted < 0
                               THEN Raise("ValueError:continuum_order")
                               ELSE pc' = "check_continuum_regions" /\ UNCHANGED outcome
    /\ UNCHANGED <<self, calls, data, parameters, missing_parameters, theta, finite,
                   continuum_mask, aliased, loop, blending_spectrum, opt, hist, start, scope,
                   parser, fitter, synthesise_kwargs, reads, cache, unpacked>>

\* oracle.utils.overlap
overlap(start_a, end_a, start_b, end_b) == end_b >= start_b /\ end_b >= start_a

\* Lines 242-246: the loop over the regions, which breaks after the first.
any_acceptable_continuum_regions(regions, disp) ==
    overlap(regions[1][1], regions[1][2], disp[1], disp[Len(disp)])

\* Lines 240-251: the continuum regions must overlap the data.
CheckContinuumRegions ==
    /\ pc = "check_continuum_regions"
    /\ IF RegionsSize(self) >= 2
          /\ ~any_acceptable_continuum_regions(self.continuum_regions, data.disp)
         THEN Raise("ValueError:no_overlap")
         ELSE pc' = "check_surrounding" /\ UNCHANGED outcome
    /\ UNCHANGED <<self, calls, arg, data, parameters, missing_parameters, theta, finite,
                   continuum_mask, aliased, loop, blending_spectrum, opt, hist, start, scope,
                   parser, fitter, synthesise_kwargs, reads, cache, unpacked>>

\* surrounding as the caller gives it: a number (in wavelength units) or a
\* string that is no number.  4 is the default of 2 Angstrom.
SurroundingChoices ==
    { [t |-> "num", v |-> 4], [t |-> "num", v |-> 2], [t |-> "num", v |-> 0],
      [t |-> "num", v |-> -2], [t |-> "str", v |-> 0] }

\* Lines 252-257: surrounding = float(surrounding), which must not be < 0.
CheckSurrounding ==
    /\ pc = "check_surrounding"
    /\ \E surrounding \in Inputs(SurroundingChoices, {[t |-> "num", v |-> 4]}) :
        /\ arg' = [arg EXCEPT !.surrounding = surrounding]
        /\ IF surrounding.t = "str"
             THEN Raise("TypeError:surrounding")
             ELSE IF surrounding.v < 0
                    THEN Raise("ValueError:surrounding")
                    ELSE pc' = "establish_parameters" /\ UNCHANGED outcome
    /\ UNCHANGED <<self, calls, data, parameters, missing_parameters, theta, finite,
                   continuum_mask, aliased, loop, blending_spectrum, opt, hist, start, scope,
                   parser, fitter, synthesise_kwargs, reads, cache, unpacked>>

\* The wavelength entry of constrain_parameters as the caller spells it (None
\* and the empty dict have none).  The other entries, and the bounds, are
\* drawn where the objective first reads them.
ConstrainKeyChoices == { {}, {"Wavelength"}, {"wavelength"} }

\* Which of the four stellar parameters initial_theta holds.
stellar_parameter_keys ==
    {"effective_temperature", "surface_gravity", "metallicity", "microturbulence"}

StellarChoices ==
    { stellar_parameter_keys, stellar_parameter_keys \ {"microturbulence"}, {} }

continuum_names(order) ==
    [i \in 1..(order + 1) |-> IF i = 1 THEN "continuum.0" ELSE "continuum.1"]

\* Lines 263-264: the keys of constrain_parameters in lower case.
lower_keys(keys) == {lower(k) : k \in keys}

\* Lines 293-294: is a blending spectrum needed?
has_blending(t) ==
    ~t.blending_transitions.none /\ ArrayLen(t.blending_transitions) > 0

\* Lines 273-295: the list of free parameters.
establish_parameters(t, constrain_keys, continuum_order) ==
    <<"line_depth", "fwhm">>
    \o (IF "wavelength" \in constrain_keys THEN <<"wavelength">> ELSE <<>>)
    \o (IF continuum_order.t # "none" /\ 2 > RegionsSize(t)
          THEN continuum_names(continuum_order.v) ELSE <<>>)
    \o (IF has_blending(t) THEN <<"blending_fwhm">> ELSE <<>>)

\* Lines 259-305: the free parameters and the stellar parameters they need.
EstablishParameters ==
    /\ pc = "establish_parameters"
    /\ \E keys \in Inputs(ConstrainKeyChoices, {{}}),
          stellar \in Inputs(StellarChoices, {stellar_parameter_keys, {}}) :
        /\ arg' = [arg EXCEPT !.constrain_given = keys,
                               !.constrain_keys = lower_keys(keys), !.stellar = stellar]
        /\ parameters' = establish_parameters(self, lower_keys(keys), arg.continuum_order)
        /\ IF has_blending(self) /\ ~(stellar_parameter_keys \subseteq stellar)
             THEN Raise("KeyError:stellar_parameters")
             ELSE pc' = "slice" /\ UNCHANGED outcome
    /\ UNCHANGED <<self, calls, data, missing_parameters, theta, finite,
                   continuum_mask, aliased, loop, blending_spectrum, opt, hist, start, scope,
                   parser, fitter, synthesise_kwargs, reads, cache, unpacked>>

\* Spectrum1D.slice(region, copy=True): the pixels whose dispersion lies in
\* [region[0], region[1]].
slice(disp, lo, hi) == SelectSeq(disp, LAMBDA d : lo <= d /\ d <= hi)

\* Spectrum1D.mask_by_dispersion(mask): the flux of every pixel inside one of
\* the intervals becomes NaN.
mask_by_dispersion(disp, flux_finite, intervals) ==
    [i \in DOMAIN disp |->
        flux_finite[i] /\ ~\E k \in DOMAIN intervals :
                              intervals[k][1] <= disp[i] /\ disp[i] <= intervals[k][2]]

\* Which pixels of a slice of n pixels carry a finite flux (the others are
\* NaN): all, all but the first, all but the one at the line centre, or none.
FluxFiniteChoices(n, centre) ==
    { [i \in 1..n |-> TRUE], [i \in 1..n |-> FALSE] }
    \cup { [i \in 1..n |-> i # j] : j \in {1, centre} \cap (1..n) }

\* Lines 309-314: the slice around the line, the mask, the finite pixels.
\* The arguments as the caller wrote them are gone with their converted
\* copies, and the stellar parameters are not read again unless a spectrum is synthesised.
Slice ==
    /\ pc = "slice"
    /\ LET sdisp == slice(data.disp, self.wavelength - arg.surrounding.v,
                          self.wavelength + arg.surrounding.v)
       IN  \E ff \in Inputs(FluxFiniteChoices(Len(sdisp),
                                             searchsorted(sdisp, self.wavelength) + 1),
                           {[i \in 1..Len(sdisp) |-> TRUE]}) :
             LET flux_finite == IF self.mask.none THEN ff
                                ELSE mask_by_dispersion(sdisp, ff, self.mask.intervals)
             IN  /\ data' = [disp |-> sdisp, flux_finite |-> flux_finite,
                             ivar_finite |-> <<>>]
                 /\ finite' = flux_finite
    /\ hist' = [hist EXCEPT !.sliced = TRUE]
    /\ pc' = "seed"
    /\ arg' = [arg EXCEPT !.constrain_given = {}, !.kind_given = "unread",
                           !.continuum_order_given = Unread,
                           !.stellar = IF has_blending(self) THEN @ ELSE {}]
    /\ UNCHANGED <<self, outcome, calls, parameters, missing_parameters, theta,
                   continuum_mask, aliased, loop, blending_spectrum, opt, start, scope,
                   parser, fitter, synthesise_kwargs, reads, cache, unpacked>>

\* The entries of initial_theta other than the stellar parameters: which
\* model parameters the caller gives, and their values.
InitialThetaChoices ==
    { ld @@ fw @@ co :
        ld \in { <<>>, [k \in {"line_depth"} |-> 1], [k \in {"line_depth"} |-> One] },
        fw \in { <<>>, [k \in {"fwhm"} |-> 1] },
        co \in { <<>>, [k \in {"continuum.0"} |-> 1],
                 [k \in {"continuum.0", "continuum.1"} |-> 1] } }

\* Lines 316-326: the parameters to estimate, and theta seeded with the
\* nominal wavelength and the caller's values (setdefault keeps the former).
Seed ==
    /\ pc = "seed"
    /\ \E it \in Inputs(InitialThetaChoices, {<<>>, [k \in {"line_depth"} |-> One]}) :
        /\ DOMAIN it \subseteq Range(parameters)
        /\ arg' = [arg EXCEPT !.initial_theta = it]
        /\ missing_parameters' = Range(parameters) \ DOMAIN it
        /\ theta' = [k \in {"wavelength"} \cup DOMAIN it |->
                        IF k = "wavelength" THEN self.wavelength ELSE it[k]]
    /\ pc' = "synthesise"
    /\ UNCHANGED <<self, outcome, calls, data, parameters, finite,
                   continuum_mask, aliased, loop, blending_spectrum, opt, hist, start, scope,
                   parser, fitter, synthesise_kwargs, reads, cache, unpacked>>

\* np.diff(disp).min()
pixel_size(disp) == Min({disp[i + 1] - disp[i] : i \in 1..(Len(disp) - 1)})

\* dict.setdefault(k, v)
setdefault(d, k, v) == [q \in DOMAIN d \cup {k} |-> IF q \in DOMAIN d THEN d[q] ELSE v]

\* A dict a caller makes for one call, with both keys given.
GivenKwargs == [oversample |-> 2, wavelength_step |-> 1]

\* Lines 334-335 on the dict of lines 266-267.
synthesise_defaults(passed, disp) ==
    setdefault(setdefault(passed, "oversample", 4), "wavelength_step", pixel_size(disp))

\* Lines 266-267 and 328-342: the blending spectrum.  np.diff(data.disp).min()
\* needs two pixels; the synthesiser is external and its errors propagate.
\* The caller passes None (the call makes its own dict), a dict made for this
\* call, or the dict it passes to every call of a sequence; setdefault writes
\* into the dict that was passed.
Synthesise ==
    /\ pc = "synthesise"
    /\ IF "blending_fwhm" \in Range(parameters)
         THEN IF Len(data.disp) < 2
                THEN /\ Raise("ValueError:pixel_size")
                     /\ UNCHANGED <<blending_spectrum, hist, synthesise_kwargs>>
                ELSE \E how \in IF scope = "call" THEN {"None", "given"}
                                                ELSE {"None", "shared"} :
                     LET passed == CASE how = "None" -> <<>>
                                     [] how = "given" -> GivenKwargs
                                     [] how = "shared" -> synthesise_kwargs
                         kwds == synthesise_defaults(passed, data.disp)
                     IN  /\ hist' = [hist EXCEPT
                               !.synthesised = @ + 1,
                               !.synthesis =
                                   [region |-> <<self.wavelength - arg.surrounding.v,
                                                 self.wavelength + arg.surrounding.v>>,
                                    oversample |-> kwds["oversample"],
                                    wavelength_step |-> kwds["wavelength_step"],
                                    pixel_size |-> pixel_size(data.disp),
                                    passed |-> how]]
                         /\ synthesise_kwargs' = IF how = "shared" THEN kwds
                                                 ELSE synthesise_kwargs
                         /\ \/ /\ blending_spectrum' = "spectrum"
                               /\ pc' = "continuum" /\ UNCHANGED outcome
                            \/ /\ Raise("SynthesisError")
                               /\ UNCHANGED blending_spectrum
         ELSE /\ blending_spectrum' = "None"
              /\ pc' = "continuum"
              /\ UNCHANGED <<outcome, hist, synthesise_kwargs>>
    /\ continuum_mask' = [i \in DOMAIN data.disp |-> FALSE]
    /\ UNCHANGED <<self, calls, arg, data, parameters, missing_parameters, theta,
                   finite, aliased, loop, opt, start, scope,
                   parser, fitter, reads, cache, unpacked>>

-----------------------------------------------------------------------------
(* The continuum / outlier refinement loop, lines 351-523 *)

\* Pixels (1-based) that a boolean array selects.
Selected(mask) == {i \in DOMAIN mask : mask[i]}

\* Lines 386-388: every continuum region sets its pixels in the mask.
RECURSIVE mark_regions(_, _, _)
mark_regions(mask, regions, disp) ==
    IF regions = <<>> THEN mask
    ELSE mark_regions(SliceAssign(mask, searchsorted(disp, Head(regions)[1]),
                                  searchsorted(disp, Head(regions)[2]), TRUE),
                      Tail(regions), disp)

\* Lines 371-372: the coefficients are taken from initial_theta.
coefficients_given(t, missing) ==
    2 > RegionsSize(t) /\ ~\E q \in missing : q \in {"continuum.0", "continuum.1"}

\* theta.update(dict(zip(continuum names, coefficients)))
update_continuum(th, order, coefficients) ==
    [k \in DOMAIN th \cup Range(continuum_names(order)) |->
        IF k \in Range(continuum_names(order)) THEN coefficients[k] ELSE th[k]]

\* np.polyfit: the fitted coefficients (their values are not computed: each
\* is the finite value 1).
polyfit(order) == [k \in Range(continuum_names(order)) |-> 1]

\* Lines 394-417: the polynomial fit over the pixels `used`, after which the
\* coefficients are bound, the masker is switched on when detect_nearby_lines
\* is true, and theta takes the coefficients when they are free parameters.
\* detect_nearby_lines is drawn when the first round reads it.
Polyfit(used) ==
    \E detect \in Inputs(BOOLEAN, BOOLEAN) :
        /\ loop.kk > 0 => detect = arg.detect_nearby_lines
        /\ arg' = [arg EXCEPT !.detect_nearby_lines = detect]
        /\ hist' = [hist EXCEPT !.fit_round = loop.kk, !.used = used, !.masker = NoRound]
        /\ loop' = [loop EXCEPT !.coefficients = "bound",
                                !.iterate_on_continuum = @ \/ detect]
        /\ theta' = IF "continuum.0" \in Range(parameters)
                      THEN update_continuum(theta, arg.continuum_order.v,
                                            polyfit(arg.continuum_order.v))
                      ELSE theta
        /\ pc' = "estimate"
        /\ UNCHANGED outcome

\* Lines 356-358: no continuum treatment.
ContinuumNone ==
    /\ arg.continuum_order.t = "none"
    /\ loop' = [loop EXCEPT !.coefficients = "bound"]
    /\ pc' = "estimate"
    /\ hist' = [hist EXCEPT !.masker = NoRound]
    /\ UNCHANGED <<outcome, arg, theta, finite, continuum_mask, aliased>>

\* Lines 371-379: the coefficients come from initial_theta.
ContinuumGiven ==
    /\ arg.continuum_order.t # "none"
    /\ coefficients_given(self, missing_parameters)
    /\ loop' = [loop EXCEPT !.coefficients = "bound"]
    /\ theta' = update_continuum(theta, arg.continuum_order.v, arg.initial_theta)
    /\ pc' = "estimate"
    /\ hist' = [hist EXCEPT !.masker = NoRound]
    /\ UNCHANGED <<outcome, arg, finite, continuum_mask, aliased>>

\* Lines 385-389 and 394-417: the mask is the regions times finite.
ContinuumRegions ==
    /\ arg.continuum_order.t # "none"
    /\ ~coefficients_given(self, missing_parameters)
    /\ RegionsSize(self) >= 2
    /\ LET marked == mark_regions(continuum_mask, self.continuum_regions, data.disp)
           mask == [i \in DOMAIN marked |-> marked[i] /\ finite[i]]
       IN  IF Len(finite) # Len(continuum_mask)
             THEN \* continuum_mask *= finite cannot broadcast
                  /\ continuum_mask' = marked
                  /\ Raise("ValueError:broadcast")
                  /\ UNCHANGED <<arg, theta, loop, hist>>
             ELSE /\ continuum_mask' = mask
                  /\ IF Selected(mask) = {}
                       THEN /\ Raise("TypeError:polyfit_empty")
                            /\ UNCHANGED <<arg, theta, loop, hist>>
                       ELSE Polyfit(Selected(mask))
    /\ UNCHANGED <<finite, aliased>>

\* Lines 391-392 and 394-417: continuum_mask = finite makes the two names one
\* array.  A boolean index of another length than the array is an IndexError
\* or (numpy before 1.13) selects the pixels it names.
ContinuumFinite ==
    /\ arg.continuum_order.t # "none"
    /\ ~coefficients_given(self, missing_parameters)
    /\ RegionsSize(self) < 2
    /\ continuum_mask' = finite
    /\ aliased' = TRUE
    /\ UNCHANGED finite
    /\ \/ /\ Len(finite) # Len(data.disp)
          /\ Raise("IndexError:boolean_index")
          /\ UNCHANGED <<arg, theta, loop, hist>>
       \/ /\ \A i \in Selected(finite) : i <= Len(data.disp)
          /\ Selected(finite) = {}
          /\ Raise("TypeError:polyfit_empty")
          /\ UNCHANGED <<arg, theta, loop, hist>>
       \/ /\ \A i \in Selected(finite) : i <= Len(data.disp)
          /\ Selected(finite) # {}
          /\ Polyfit(Selected(finite))

\* Lines 356-417 for one round: the continuum coefficients.
Continuum ==
    /\ pc = "continuum"
    /\ \/ ContinuumNone
       \/ ContinuumGiven
       \/ ContinuumRegions
       \/ ContinuumFinite
    /\ UNCHANGED <<self, calls, data, parameters, missing_parameters,
                   blending_spectrum, opt, start, scope,
                   parser, fitter, synthesise_kwargs, reads, cache, unpacked>>

\* Python's data.flux[index]: is index (0-based) inside the array?
InRange(a, index) == index < Len(a)

Max(S) == CHOOSE x \in S : \A y \in S : x >= y

\* Lines 439-447: the pixel that can be the half-depth crossing on each side.
\* A pixel whose flux is NaN never compares above mid_flux, and no pixel does
\* when mid_flux is NaN.  0 stands for "no pixel on this side"; of the pixels
\* with a finite flux the nearest one is taken (a farther one only changes the
\* value of the estimate).
pos_candidates(disp, flux_finite, index, line_depth) ==
    LET above == {i \in DOMAIN disp : i > index /\ flux_finite[i] /\ isfinite(line_depth)}
    IN  {0} \cup (IF above = {} THEN {} ELSE {Min(above)})

neg_candidates(disp, flux_finite, index, line_depth) ==
    LET above == {i \in DOMAIN disp : i <= index /\ flux_finite[i] /\ isfinite(line_depth)}
    IN  {0} \cup (IF above = {} THEN {} ELSE {Max(above)})

\* Lines 456-463: pos - neg, or twice the distance on the one finite side.
initial_fwhm(disp, wavelength, pos, neg) ==
    IF pos # 0 /\ neg # 0 THEN disp[pos] - disp[neg]
    ELSE IF pos # 0 THEN 2 * (disp[pos] - wavelength)
    ELSE 2 * (wavelength - disp[neg])

\* dict[k] = v
DictSet(d, k, v) == [q \in DOMAIN d \cup {k} |-> IF q = k THEN v ELSE d[q]]

\* Lines 421-430: the line depth, 1 - flux/continuum at the line centre
\* clipped to [tolerance, 1 - tolerance]: NaN when the flux there is NaN, and
\* otherwise a value inside (0, 1), for which the model takes 1 (in units of
\* 1/One).  kwargs.pop takes the caller's tolerance in the first round only.
estimate_line_depth(flux_finite, index) ==
    IF flux_finite[index + 1] THEN 1 ELSE nan

\* Line 428: kwargs.pop("initial_line_depth_tolerance", 1e-3).  The caller gave
\* the keyword or did not (read at the first pop); the pop removes it, so every
\* later pop gives the default.
pop_tolerance(kwargs) ==
    IF kwargs = "unread"
      THEN {[tolerance |-> "given", kwargs |-> "popped"],
            [tolerance |-> "default", kwargs |-> "absent"]}
      ELSE {[tolerance |-> "default", kwargs |-> kwargs]}

\* The ways lines 420-470 can end for one round: the error raised ("" for
\* none), theta, and what became of `finite` and of the loop's names.
EstimateOutcomes ==
    LET index == searchsorted(data.disp, self.wavelength)
        need_depth == "line_depth" \in missing_parameters
        need_fwhm == "fwhm" \in missing_parameters
        need_blend == "blending_fwhm" \in missing_parameters
        blend(th) == IF need_blend THEN DictSet(th, "blending_fwhm", th["fwhm"]) ELSE th
        out(err, th, fin, al, side, lp) ==
            [err |-> err, theta |-> th, finite |-> fin, aliased |-> al,
             side |-> side, loop |-> lp]
    IN
    IF need_depth /\ ~InRange(data.disp, index)
      THEN {out("IndexError:line_centre", theta, finite, aliased, "none",
                [loop EXCEPT !.continuum_at_wavelength = "bound"])}
      ELSE
        LET th1 == IF need_depth
                     THEN DictSet(theta, "line_depth",
                                  estimate_line_depth(data.flux_finite, index))
                     ELSE theta
            lps == IF need_depth
                     THEN {[loop EXCEPT !.continuum_at_wavelength = "bound",
                                        !.tolerance = p.tolerance,
                                        !.kwargs = p.kwargs] :
                             p \in pop_tolerance(loop.kwargs)}
                     ELSE {loop}
        IN
        IF ~need_fwhm
          THEN {out("", blend(th1), finite, aliased, "none", lp) : lp \in lps}
          ELSE IF ~need_depth /\ loop.continuum_at_wavelength = "unbound"
            THEN {out("NameError:continuum_at_wavelength", th1, finite, aliased,
                      "none", loop)}
            ELSE
              UNION {
                { IF pos = 0 /\ neg = 0
                    THEN out("ValueError:cannot_estimate_fwhm", th1, finite, aliased,
                             "none", lp)
                    ELSE IF pos # 0 /\ neg # 0
                      THEN out("", blend(DictSet(th1, "fwhm",
                                   initial_fwhm(data.disp, self.wavelength, pos, neg))),
                               finite, aliased, "both", lp)
                      ELSE \* line 462: finite = np.isfinite(initial_fwhm)
                           out("", blend(DictSet(th1, "fwhm",
                                   initial_fwhm(data.disp, self.wavelength, pos, neg))),
                               <<pos # 0, neg # 0>>, FALSE, "one", lp)
                  : pos \in pos_candidates(data.disp, data.flux_finite, index,
                                           th1["line_depth"]),
                    neg \in neg_candidates(data.disp, data.flux_finite, index,
                                           th1["line_depth"]) }
                : lp \in lps }

\* Lines 420-470 for one round: line depth, FWHM and blending FWHM.
Estimate ==
    /\ pc = "estimate"
    /\ \E o \in EstimateOutcomes :
        /\ theta' = o.theta
        /\ finite' = o.finite
        /\ aliased' = o.aliased
        /\ loop' = o.loop
        /\ hist' = [hist EXCEPT !.excluded = {}, !.fwhm_side = o.side]
        /\ IF o.err # "" THEN Raise(o.err) ELSE pc' = "masker" /\ UNCHANGED outcome
    /\ UNCHANGED <<self, calls, arg, data, parameters, missing_parameters,
                   continuum_mask, blending_spectrum, opt, start, scope,
                   parser, fitter, synthesise_kwargs, reads, cache, unpacked>>

\* Lines 500-507: the pixels that can be flagged.  differences[~continuum_mask]
\* is zeroed, so a pixel outside the mask has a standardised residual of 0 (or
\* NaN) and is never flagged; any set of pixels of the mask is flagged by
\* some spectrum.  A NaN line depth makes the whole model NaN, and then no
\* pixel is flagged.
flaggable(mask, n) == {i \in 1..n : ~(i \in DOMAIN mask /\ ~mask[i])}

\* The increasing sequence of the elements of a set of integers.
RECURSIVE sorted(_)
sorted(S) == IF S = {} THEN <<>> ELSE <<Min(S)>> \o sorted(S \ {Min(S)})

\* Line 508: np.where(np.diff(is_outlier))[0], 0-based.
is_outlier_range_edge(is_outlier) ==
    sorted({i \in 0..(Len(is_outlier) - 2) : is_outlier[i + 1] # is_outlier[i + 2]})

\* Lines 512-513: does the first edge enter an outlier range?
starts_on_even(is_outlier, edges) == is_outlier[edges[1] + 2]

\* Lines 517-518: is the i-th edge (0-based) taken as the start of a range?
is_start_of_section(i, soe) == (i % 2 = 0 /\ soe) \/ (i % 2 > 0 /\ ~soe)

\* Lines 520-522: the slice cleared for the edge at position i of the list.
start_index(edges, i) == edges[i + 1]

end_index(edges, i, n) == IF Len(edges) > i + 1 THEN edges[i + 2] ELSE n

\* Lines 515-523: the loop over the edges.
RECURSIVE exclude_runs(_, _, _, _)
exclude_runs(mask, edges, i, soe) ==
    IF i >= Len(edges) THEN mask
    ELSE exclude_runs(
            IF is_start_of_section(i, soe)
              THEN SliceAssign(mask, start_index(edges, i),
                               end_index(edges, i, Len(mask)), FALSE)
              ELSE mask,
            edges, i + 1, soe)

\* End of a round: the next one, or line 526 after the third.
EndRound(lp) ==
    /\ loop' = [lp EXCEPT !.kk = @ + 1, !.tolerance = "none"]
    /\ pc' = IF lp.kk + 1 < 3 THEN "continuum" ELSE "assert"

\* Lines 472-523 for one round: the outlier masker.
Masker ==
    /\ pc = "masker"
    /\ IF ~loop.iterate_on_continuum
         THEN /\ EndRound(loop)
              /\ hist' = [hist EXCEPT !.rounds = @ + 1, !.masker = NoRound,
                                      !.excluded = {}]
              /\ UNCHANGED <<outcome, continuum_mask, finite>>
         ELSE \E flagged \in Inputs(SUBSET flaggable(continuum_mask, Len(data.disp)),
                                     {{}, {1}, {1, 2}}) :
                /\ ~isfinite(theta["line_depth"]) => flagged = {}
                /\ LET is_outlier == [i \in 1..Len(data.disp) |-> i \in flagged]
                       edges == is_outlier_range_edge(is_outlier)
                       after == exclude_runs(continuum_mask, edges, 0,
                                             starts_on_even(is_outlier, edges))
                   IN IF edges = <<>>
                      THEN /\ Raise("IndexError:outlier_edge")
                           /\ hist' = [hist EXCEPT !.masker =
                                  [ran |-> TRUE, is_outlier |-> is_outlier,
                                   before |-> continuum_mask, after |-> continuum_mask]]
                           /\ UNCHANGED <<loop, continuum_mask, finite>>
                      ELSE /\ continuum_mask' = after
                           /\ finite' = IF aliased THEN after ELSE finite
                           /\ hist' = [hist EXCEPT !.rounds = @ + 1,
                                  !.masker = [ran |-> TRUE, is_outlier |-> is_outlier,
                                              before |-> continuum_mask, after |-> after],
                                  !.excluded = Selected(continuum_mask) \ Selected(after)]
                           /\ EndRound(loop)
                           /\ UNCHANGED outcome
    /\ UNCHANGED <<self, calls, arg, data, parameters, missing_parameters, theta,
                   aliased, blending_spectrum, opt, start, scope,
                   parser, fitter, synthesise_kwargs, reads, cache, unpacked>>

-----------------------------------------------------------------------------
(* The objective function chi_sq, lines 528-601 *)

\* A bound of constrain_parameters: None or a number.
None == [none |-> TRUE, v |-> 0]
Num(v) == [none |-> FALSE, v |-> v]

\* dict.get(k, default)
DictGet(d, k, default) == IF k \in DOMAIN d THEN d[k] ELSE default

\* An objective without the physically sensible constraints.
physically_invalid_unchecked(xd) == FALSE

\* Lines 536-537: the physically sensible constraints fail.
physically_invalid(xd) ==
    \/ Gt(0, xd["fwhm"])
    \/ ~(Gt(One, xd["line_depth"]) /\ Gt(xd["line_depth"], 0))
    \/ Gt(0, DictGet(xd, "blending_fwhm", One))

\* Lines 543-544 for one entry: "KeyError" when xd[parameter] is read and the
\* parameter is not free (a bound of None short-circuits the read), otherwise
\* whether the value violates the entry.
constraint_check(xd, parameter, bounds) ==
    IF bounds.lower.none /\ bounds.upper.none THEN "ok"
    ELSE IF parameter \notin DOMAIN xd THEN "KeyError"
    ELSE IF (~bounds.lower.none /\ Gt(bounds.lower.v, xd[parameter]))
             \/ (~bounds.upper.none /\ Lt(bounds.upper.v, xd[parameter]))
           THEN "violated" ELSE "ok"

\* chi_sq(x, full_output): the ways one evaluation can end.  "sentinel" is
\* invalid_return (or the full-output triple of it), "chi_sq" the chi-square
\* sum over the finite pixels (with the reduced value and the spectra when
\* full_output).  The dictionary constrain_parameters is walked in hash order:
\* with a violated entry and an entry of a parameter that is not free, either
\* can come first.  Line 589 reads blending_spectrum.disp when full_output.
chi_sq(x, full_output, constrain_parameters, blending) ==
    LET checks == [q \in DOMAIN constrain_parameters |->
                      constraint_check(x, q, constrain_parameters[q])]
    IN  IF physically_invalid(x) THEN {"sentinel"}
        ELSE IF \E q \in DOMAIN checks : checks[q] # "ok"
          THEN {IF checks[q] = "violated" THEN "sentinel" ELSE "KeyError" :
                    q \in {r \in DOMAIN checks : checks[r] # "ok"}}
          ELSE IF full_output /\ blending = "None" THEN {"AttributeError"}
          ELSE {"chi_sq"}

\* The bounds a caller gives for the wavelength.
WavelengthBounds ==
    { [lower |-> None, upper |-> None], [lower |-> Num(4), upper |-> Num(6)],
      [lower |-> Num(6), upper |-> None] }

\* The other entries of constrain_parameters a caller gives, as spelled.
OtherConstraints ==
    { <<>>,
      [k \in {"FWHM"} |-> [lower |-> Num(2), upper |-> None]],
      [k \in {"shape"} |-> [lower |-> Num(0), upper |-> None]] }

\* Lines 263-264 on the whole dictionary.
lower_dict(d) == [k \in lower_keys(DOMAIN d) |->
                     d[CHOOSE g \in DOMAIN d : lower(g) = k]]

\* constrain_parameters as the objective reads it, given which of its keys
\* line 282 has seen.
ConstrainChoices(keys) ==
    { lower_dict(o) @@ wb : o \in OtherConstraints,
        wb \in IF "wavelength" \in keys
                 THEN {[k \in {"wavelength"} |-> b] : b \in WavelengthBounds}
                 ELSE {<<>>} }

\* No check of the seed's chi-square.
invalid_seed_never(result) == FALSE

\* Line 620: the seed's chi-square is rejected.
invalid_seed(result) == result = "sentinel"

\* Lines 526-622: the assertion, the seed vector and the objective at the
\* seed.  The loop's names and the arguments it read are not read again.
SeedCheck ==
    /\ pc = "assert"
    /\ continuum_mask' = <<>>
    /\ finite' = <<>>
    /\ aliased' = FALSE
    /\ loop' = NoLoop
    /\ hist' = [hist EXCEPT !.synthesis = NoSynthesis,
                            !.masker = NoRound, !.excluded = {}, !.used = {},
                            !.fit_round = -1, !.fwhm_side = "none"]
    /\ LET forgotten == [arg EXCEPT !.initial_theta = <<>>,
                                    !.detect_nearby_lines = TRUE]
       IN
       IF Range(parameters) \ DOMAIN theta # {}
         THEN Raise("AssertionError") /\ arg' = forgotten /\ UNCHANGED opt
         ELSE LET p0 == [k \in Range(parameters) |-> theta[k]]
              IN  IF \E k \in DOMAIN p0 : ~isfinite(p0[k])
                    THEN /\ Raise("ValueError:non_finite_seed")
                         /\ opt' = [opt EXCEPT !.p0 = p0]
                         /\ arg' = forgotten
                    ELSE \E cp \in Inputs(ConstrainChoices(arg.constrain_keys), {<<>>}) :
                         \E r \in chi_sq(p0, TRUE, cp, blending_spectrum) :
                            /\ arg' = [forgotten EXCEPT !.constrain_parameters = cp]
                            /\ opt' = [opt EXCEPT !.p0 = p0,
                                   !.eval = [x |-> p0, full_output |-> TRUE, result |-> r]]
                            /\ IF r \in {"KeyError", "AttributeError"}
                                 THEN Raise(r)
                                 ELSE IF invalid_seed(r)
                                   THEN Raise("ValueError:invalid_seed")
                                   ELSE pc' = "fmin" /\ UNCHANGED outcome
    /\ UNCHANGED <<self, calls, data, parameters, missing_parameters, theta,
                   blending_spectrum, start, scope,
                   parser, fitter, synthesise_kwargs, reads, cache, unpacked>>

-----------------------------------------------------------------------------
(* The optimiser and the results, lines 624-686 *)

\* The points the simplex tries next: the best vertex moved by one unit
\* along one parameter.
Perturbations(x) == {[x EXCEPT ![k] = @ + d] : k \in DOMAIN x, d \in {-1, 1}}

\* Lines 625-634: op.fmin is entered; it evaluates the objective at p0 first.
Fmin ==
    /\ pc = "fmin"
    /\ hist' = [hist EXCEPT !.optimiser = @ + 1]
    /\ \E r \in chi_sq(opt.p0, FALSE, arg.constrain_parameters, blending_spectrum) :
        /\ opt' = [opt EXCEPT !.sim0 = opt.p0, !.num_funcalls = 1,
                              !.eval = [x |-> opt.p0, full_output |-> FALSE, result |-> r]]
        /\ IF r = "KeyError" THEN Raise(r) ELSE pc' = "simplex" /\ UNCHANGED outcome
    /\ UNCHANGED <<self, calls, arg, data, parameters, missing_parameters, theta,
                   finite, continuum_mask, aliased, loop, blending_spectrum, start, scope,
                   parser, fitter, synthesise_kwargs, reads, cache, unpacked>>

\* One more iteration, of one evaluation, inside op.fmin.  The simplex is sorted by value and a
\* NaN never compares smaller, so the best vertex is replaced only by a point
\* whose value is a chi-square (and smaller, which the numbers decide).
FminEval ==
    /\ pc = "simplex"
    /\ opt.num_funcalls < MaxFunCalls
    /\ \E x \in Inputs(Perturbations(opt.sim0),
                      {[opt.sim0 EXCEPT !["fwhm"] = @ + 1]}) :
       \E r \in chi_sq(x, FALSE, arg.constrain_parameters, blending_spectrum) :
       \E smaller \in BOOLEAN :
        /\ opt' = [opt EXCEPT !.num_funcalls = @ + 1, !.num_iter = @ + 1,
                              !.eval = [x |-> x, full_output |-> FALSE, result |-> r],
                              !.sim0 = IF r = "chi_sq" /\ smaller THEN x ELSE @]
        /\ IF r = "KeyError" THEN Raise(r) ELSE pc' = "simplex" /\ UNCHANGED outcome
    /\ UNCHANGED <<self, calls, arg, data, parameters, missing_parameters, theta,
                   finite, continuum_mask, aliased, loop, blending_spectrum, hist,
                   start, scope,
                   parser, fitter, synthesise_kwargs, reads, cache, unpacked>>

\* op.fmin returns its best vertex, converged (warnflag 0) or stopped by the
\* function-call (1) or iteration (2) limit.
FminReturn ==
    /\ pc = "simplex"
    /\ \E warnflag \in Inputs({0, 1, 2}, {0, 1}) :
        opt' = [opt EXCEPT !.p1 = opt.sim0, !.warnflag = warnflag]
    /\ pc' = "results"
    /\ UNCHANGED <<self, outcome, calls, arg, data, parameters, missing_parameters,
                   theta, finite, continuum_mask, aliased, loop, blending_spectrum,
                   hist, start, scope,
                   parser, fitter, synthesise_kwargs, reads, cache, unpacked>>

abs(v) == IF v < 0 THEN -v ELSE v

\* The integral taken with the width of the blending spectrum.
profile_integrals_blending(x) ==
    x["line_depth"] * abs(DictGet(x, "blending_fwhm", x["fwhm"]))

\* Line 643: the Gaussian profile integral line_depth * |fwhm| * 0.752634332;
\* with line 647's factor 1000 the equivalent width, here in units of
\* 752.634332 / One^2 milli-Angstroms.
profile_integrals(x) == x["line_depth"] * abs(x["fwhm"])

\* Diagnostics that always report a converged search.
op_info_converged(p0, ew) ==
    [ p0 |-> p0, warnflag |-> 0, num_iter |-> opt.num_iter,
      num_funcalls |-> opt.num_funcalls,
      profile_kind |-> arg.kind, equivalent_width |-> ew ]

\* Lines 649-659: the diagnostics.
op_info(p0, ew) ==
    [ p0 |-> p0, warnflag |-> opt.warnflag, num_iter |-> opt.num_iter,
      num_funcalls |-> opt.num_funcalls,
      profile_kind |-> arg.kind, equivalent_width |-> ew ]

\* A cache that keeps the first fit it was given.
stored_profile_kept(optimal_theta, info) ==
    IF self.profile.set THEN self.profile
    ELSE [set |-> TRUE, optimal_theta |-> optimal_theta, op_info |-> info]

\* Lines 661 and 673: self._profile = (optimal_theta, op_info)
stored_profile(optimal_theta, info) ==
    [set |-> TRUE, optimal_theta |-> optimal_theta, op_info |-> info]

\* Lines 637-686: the objective at the optimum, the stores on the transition
\* and the return.  op_info.update(None) is a TypeError when the objective
\* gave the invalid triple.
Results ==
    /\ pc = "results"
    /\ \E r \in chi_sq(opt.p1, TRUE, arg.constrain_parameters, blending_spectrum) :
        LET optimal_theta == opt.p1
            ew == [set |-> TRUE, v |-> profile_integrals(optimal_theta)]
        IN  IF r \in {"KeyError", "AttributeError"}
              THEN /\ Raise(r)
                   /\ opt' = [opt EXCEPT
                        !.eval = [x |-> opt.p1, full_output |-> TRUE, result |-> r]]
                   /\ UNCHANGED <<self, arg>>
              ELSE IF r = "sentinel"
                THEN /\ self' = [self EXCEPT !.equivalent_width = ew]
                     /\ Raise("TypeError:op_spectra")
                     /\ opt' = [opt EXCEPT
                          !.eval = [x |-> opt.p1, full_output |-> TRUE, result |-> r]]
                     /\ UNCHANGED arg
                ELSE \E full_output \in Inputs(BOOLEAN, {FALSE}) :
                     /\ self' = [self EXCEPT !.equivalent_width = ew,
                                    !.profile = stored_profile(optimal_theta,
                                                                op_info(theta, ew.v))]
                     /\ arg' = [arg EXCEPT !.full_output = full_output]
                     /\ opt' = [opt EXCEPT !.returned = optimal_theta,
                          !.eval = [x |-> opt.p1, full_output |-> TRUE, result |-> r]]
                     /\ pc' = "idle"
                     /\ outcome' = "returned"
    /\ UNCHANGED <<calls, data, parameters, missing_parameters, theta, finite,
                   continuum_mask, aliased, loop, blending_spectrum, hist, start, scope,
                   parser, fitter, synthesise_kwargs, reads, cache, unpacked>>

\* np.log of the quotient num/den: the logarithm is kept as its argument
\* (log is injective, so two reads agree exactly when their quotients do).
np_log(num, den) == [log_of |-> [num |-> num, den |-> den]]

\* A getter that reads a transition without results as one of width zero.
reduced_equivalent_width_initialised(t) ==
    Returns(np_log(t.equivalent_width.v, t.wavelength))

\* Lines 72-86: the property reduced_equivalent_width.  __init__ (lines 26-49)
\* never assigns equivalent_width, so the attribute lookup of line 86 raises
\* AttributeError until line 647 has run.
reduced_equivalent_width(t) ==
    IF ~t.equivalent_width.set
      THEN Raises("AttributeError")
      ELSE Returns(np_log(t.equivalent_width.v, t.wavelength))

\* The caller reads transition.reduced_equivalent_width between two calls.
ReadReducedEquivalentWidth ==
    /\ pc = "idle"
    /\ reads' = reduced_equivalent_width(self)
    /\ UNCHANGED <<self, pc, outcome, calls, arg, data, parameters, missing_parameters,
                   theta, finite, continuum_mask, aliased, loop, blending_spectrum, opt,
                   hist, start, scope,
                   parser, fitter, synthesise_kwargs, cache, unpacked>>

Next ==
    \/ Call
    \/ ReadReducedEquivalentWidth
    \/ CheckData
    \/ CheckKind
    \/ CheckContinuumOrder
    \/ CheckContinuumRegions
    \/ CheckSurrounding
    \/ EstablishParameters
    \/ Slice
    \/ Seed
    \/ Synthesise
    \/ Continuum
    \/ Estimate
    \/ Masker
    \/ SeedCheck
    \/ Fmin
    \/ FminEval
    \/ FminReturn
    \/ Results

Spec == Init /\ [][Next]_vars

\* Sequences of calls on one transition that has a blending transition.
InitSeq ==
    /\ self = AtomicTransition(5, [none |-> FALSE, n |-> 1], NoMask, <<>>)
    /\ pc = "idle"
    /\ outcome = "none"
    /\ calls = 0
    /\ arg = NoArg
    /\ data = [disp |-> SpectrumDisp, flux_finite |-> <<>>, ivar_finite |-> <<>>]
    /\ parameters = <<>>
    /\ missing_parameters = {}
    /\ theta = <<>>
    /\ finite = <<>>
    /\ continuum_mask = <<>>
    /\ aliased = FALSE
    /\ loop = NoLoop
    /\ blending_spectrum = "unbound"
    /\ opt = NoOpt
    /\ hist = NoHist
    /\ start = self
    /\ scope = "sequence"
    /\ parser = Unspecified
    /\ fitter = NoFitter
    /\ synthesise_kwargs = <<>>
    /\ reads = Unset
    /\ cache = NoCache
    /\ unpacked = NotUnpacked

SpecSeq == InitSeq /\ [][Next]_vars

\* The construction of transitions from species specifiers.
Symbols == { <<"F", "e">>, <<"C", "a">>, <<"f", "e">>, <<"X", "x">> }

IonisationTokens == { <<>>, <<" ", "I">>, <<" ", "I", "I">>, <<" ", "2">>, <<" ", "i", "i">> }

CodeNumbers == {20, 26}

SpeciesChoices ==
    {PyNone, PyList}
    \cup { PyStr(sym \o tok) : sym \in Symbols, tok \in IonisationTokens }
    \cup { PyStr(<<"2", "6">>), PyStr(<<"2", "6", ".", "0">>), PyStr(<<"2", "6", ".", "1">>) }
    \cup { PyInt(z) : z \in CodeNumbers }
    \cup { nearest_double(10 * z + t) : z \in CodeNumbers, t \in 0..9 }

InitParse ==
    /\ self = AtomicTransition(5, NoBlending, NoMask, <<>>)
    /\ pc = "idle"
    /\ outcome = "none"
    /\ calls = 0
    /\ arg = NoArg
    /\ data = [disp |-> SpectrumDisp, flux_finite |-> <<>>, ivar_finite |-> <<>>]
    /\ parameters = <<>>
    /\ missing_parameters = {}
    /\ theta = <<>>
    /\ finite = <<>>
    /\ continuum_mask = <<>>
    /\ aliased = FALSE
    /\ loop = NoLoop
    /\ blending_spectrum = "unbound"
    /\ opt = NoOpt
    /\ hist = NoHist
    /\ start = self
    /\ scope = "call"
    /\ parser \in { Construction(sp) : sp \in SpeciesChoices }
    /\ fitter = NoFitter
    /\ synthesise_kwargs = <<>>
    /\ reads = Unset
    /\ cache = NoCache
    /\ unpacked = NotUnpacked

fit_profile_vars ==
    <<self, pc, outcome, calls, arg, data, parameters, missing_parameters, theta,
      finite, continuum_mask, aliased, loop, blending_spectrum, opt, hist, start, scope,
      reads>>

\* AtomicTransition(wavelength, species): lines 45-47.
ParseSpecies ==
    /\ parser.pc = "construct"
    /\ parser' = [parser EXCEPT !.pc = "constructed",
                                !.result = _parse_species(parser.species)]
    /\ UNCHANGED <<fit_profile_vars, fitter, synthesise_kwargs, cache, unpacked>>

\* AtomicTransition(wavelength, species=first.species): the species code a
\* transition stores is parsed again.
Reparse ==
    /\ parser.pc = "constructed"
    /\ parser.result.raised = ""
    /\ parser' = [parser EXCEPT !.pc = "reconstructed",
                                !.again = _parse_species(parser.result.value.species)]
    /\ UNCHANGED <<fit_profile_vars, fitter, synthesise_kwargs, cache, unpacked>>

\* utils.atomic_number(species), called on its own.
AtomicNumber ==
    /\ parser.pc = "construct"
    /\ parser.lookup = Unset
    /\ parser' = [parser EXCEPT !.lookup = atomic_number(parser.species)]
    /\ UNCHANGED <<fit_profile_vars, fitter, synthesise_kwargs, cache, unpacked>>

NextParse ==
    \/ ParseSpecies
    \/ Reparse
    \/ AtomicNumber

SpecParse == InitParse /\ [][NextParse]_vars

-----------------------------------------------------------------------------
(* solvers/profiles.py: ProfileFitter and ProfileMixtureFitter *)

\* The spectrum the fitter is given: wavelengths in units of 0.05 Angstroms,
\* one pixel every 0.25 Angstroms.
FitDisp == [i \in 1..FitPixels |-> 5 * i]

\* spectrum.flux is finite everywhere, or everywhere but in one pixel.
FitFluxChoices ==
    { [i \in 1..FitPixels |-> TRUE], [i \in 1..FitPixels |-> i # 3] }

\* Lines 32-42, in units of 0.05 Angstroms.
default_kwargs ==
    [mask |-> <<>>, profile |-> "gaussian", initial_fwhm |-> 2,
     central_weighting |-> TRUE, wavelength_tolerance |-> 2, continuum_degree |-> 0,
     maximum_wavelength_window |-> 20, clip_model_sigma |-> 0]

\* The keywords given to the constructor.
InitKwargsChoices ==
    { <<>>,
      [k \in {"global_mask"} |-> <<>>],
      [k \in {"global_mask"} |-> << <<10, 15>> >>],
      [k \in {"profile"} |-> "VOIGT"],
      [k \in {"profile"} |-> "Lorentzian"],
      [k \in {"initial_fwhm"} |-> 0],
      [k \in {"wavelength_tolerance"} |-> 0 - 1] }

\* dict.update(**kwargs) on a copy: the keys of kwargs replace those of d.
update(d, kwargs) == kwargs @@ d

\* Lines 27-55.
ProfileFitterInit ==
    /\ fitter.pc = "none"
    /\ \E kind \in {"ProfileFitter", "ProfileMixtureFitter"},
          kwargs \in InitKwargsChoices, ff \in FitFluxChoices :
          LET d == update(default_kwargs, kwargs)
          IN  IF \/ lower(d["profile"]) \notin {"gaussian", "voigt"}
                 \/ 0 >= d["initial_fwhm"]
                 \/ 0 > d["wavelength_tolerance"]
              THEN fitter' = [fitter EXCEPT !.pc = "ValueError"]
              ELSE fitter' = [fitter EXCEPT !.pc = "ready", !.kind = kind,
                                            !._default_kwargs = d, !.constructed = d,
                                            !.flux_finite = ff]
    /\ UNCHANGED <<fit_profile_vars, parser, synthesise_kwargs, cache, unpacked>>

FitWavelengthChoices == {25, 24, 5}

FitMaskChoices ==
    { NoMask,
      [none |-> FALSE, intervals |-> <<>>],
      [none |-> FALSE, intervals |-> << <<10, 15>> >>],
      [none |-> FALSE, intervals |-> << <<10, 30>> >>] }

FitKwargsChoices ==
    { <<>>,
      [k \in {"global_mask"} |-> <<>>],
      [k \in {"global_mask"} |-> << <<30, 35>> >>],
      [k \in {"wavelength_tolerance"} |-> 0],
      [k \in {"clip_model_sigma"} |-> 1] }

\* The pixels whose deviation from the first fitted model reaches
\* clip_model_sigma (lines 171-172).
DeviatingChoices == { {}, {3}, {4} }

\* BaseFitter.mask_data(disp, flux / variance, global_mask,
\* mask_non_finites=True): the pixels of the window that lie in an interval
\* of the mask or whose value is not finite.
mask_data(window, value_finite, global_mask) ==
    { i \in window :
        \/ ~value_finite[i]
        \/ \E k \in DOMAIN global_mask :
              global_mask[k][1] <= FitDisp[i] /\ FitDisp[i] <= global_mask[k][2] }

\* Lines 58-68 (and 212-222): full_output is popped, the defaults are copied
\* and updated with the call's keywords, and the call's mask is appended to
\* the list kwds["global_mask"].  dict.copy() copies the dict and not its
\* values: unless the call gave its own global_mask the list is the one the
\* fitter's defaults hold, and extend() lengthens it there too.
merge_kwargs(defaults, mask, given) ==
    LET kwargs == [k \in DOMAIN given \ {"full_output"} |-> given[k]]
        kwds == update(defaults, kwargs)
        shared == "global_mask" \in DOMAIN defaults \ DOMAIN kwargs
    IN  IF mask.none THEN [err |-> "", kwds |-> kwds, defaults |-> defaults]
        ELSE IF "global_mask" \notin DOMAIN kwds
        THEN [err |-> "KeyError:global_mask", kwds |-> kwds, defaults |-> defaults]
        ELSE [err |-> "",
              kwds |-> DictSet(kwds, "global_mask", kwds["global_mask"] \o mask.intervals),
              defaults |-> IF shared
                           THEN DictSet(defaults, "global_mask",
                                        defaults["global_mask"] \o mask.intervals)
                           ELSE defaults]

\* Lines 70-191 of ProfileFitter.fit and 224-343 of ProfileMixtureFitter.fit:
\* how the call ends and which pixels it masks and fits.  `fate` is what
\* curve_fit does (it raises RuntimeError when it does not converge; in the
\* second fit it may also reject data that is not finite) and `deviating` the
\* pixels the clipping finds.
\* f.integrate of line 185 is read on the lambda of lines 145-148.
select_and_fit(kind, flux_finite, wavelength, kwds, fate, deviating) ==
    LET f == {i \in 1..FitPixels : flux_finite[i]}
        tolerance == kwds["wavelength_tolerance"]
        idxs == <<searchsorted(FitDisp, wavelength - tolerance),
                  searchsorted(FitDisp, wavelength + tolerance)>>
        trough == {i \in f : idxs[1] < i /\ i <= idxs[2]}
        indices == <<searchsorted(FitDisp, wavelength - kwds["maximum_wavelength_window"]),
                     searchsorted(FitDisp, wavelength + kwds["maximum_wavelength_window"])>>
        window == {i \in 1..FitPixels : indices[1] < i /\ i <= indices[2]}
        \* lines 98-99: the variance of a pixel at the wavelength becomes 0
        value_finite == [i \in 1..FitPixels |->
                            /\ flux_finite[i]
                            /\ ~(/\ kind = "ProfileFitter"
                                 /\ kwds["central_weighting"]
                                 /\ FitDisp[i] = wavelength)]
        masked == mask_data(window, value_finite, kwds["global_mask"])
        used == IF kind = "ProfileFitter" THEN window \ masked ELSE masked
        \* lines 171-172: model_sigma is NaN where the flux is, and NaN >= x
        \* is False; mask_b = mask * (...) is True where both are
        clipped == {i \in deviating \cap window : flux_finite[i]}
        mask_b == masked \cap clipped
        used_b == window \ mask_b
        end(how, reached, u, ub) ==
            [outcome |-> how, reached |-> reached,
             masked |-> IF reached THEN masked ELSE {}, used |-> u,
             second |-> ub # "none", used_b |-> IF ub = "none" THEN {} ELSE used_b,
             deviating |-> IF ub = "none" THEN {} ELSE clipped]
    IN  IF f = {} THEN end("IndexError", FALSE, {}, "none")
        ELSE IF ~(FitDisp[Max(f)] > wavelength /\ wavelength > FitDisp[Min(f)])
        THEN end("ValueError:range", FALSE, {}, "none")
        ELSE IF tolerance > 0 /\ trough = {}
        THEN end("ValueError:nanargmin", FALSE, {}, "none")
        ELSE IF "global_mask" \notin DOMAIN kwds
        THEN end("KeyError:global_mask", FALSE, {}, "none")
        ELSE IF 5 > Cardinality(used)
        THEN end("ValueError:no_finite_data", TRUE, {}, "none")
        ELSE IF kwds["profile"] \notin {"gaussian", "voigt"}
        THEN end(IF kind = "ProfileFitter" THEN "NameError:p" ELSE "TypeError:f",
                 TRUE, used, "none")
        ELSE IF kind = "ProfileMixtureFitter"
        THEN end("returned", TRUE, used, "none")
        ELSE IF fate = "RuntimeError"
        THEN end("RuntimeError", TRUE, used, "none")
        ELSE IF kwds["clip_model_sigma"] > 0
        THEN end(IF fate = "Error:2" THEN "Error:second_fit"
                                      ELSE "AttributeError:integrate",
                 TRUE, used, "second")
        ELSE end("AttributeError:integrate", TRUE, used, "none")

\* fitter.fit(spectrum, wavelength, mask, **kwargs)
Fit ==
    /\ fitter.pc = "ready"
    /\ fitter.fits < MaxFits
    /\ \E wavelength \in FitWavelengthChoices, mask \in FitMaskChoices,
          kwargs \in FitKwargsChoices :
       \E fate \in IF fitter.kind # "ProfileFitter" THEN {"ok"}
                   ELSE IF "clip_model_sigma" \in DOMAIN kwargs
                   THEN {"ok", "RuntimeError", "Error:2"}
                   ELSE {"ok", "RuntimeError"},
          deviating \in IF "clip_model_sigma" \in DOMAIN kwargs
                        THEN DeviatingChoices ELSE {{}} :
          LET run(kind, defaults) ==
                  LET m == merge_kwargs(defaults, mask, kwargs)
                  IN  IF m.err # ""
                      THEN [outcome |-> m.err, reached |-> FALSE, masked |-> {},
                            used |-> {}, second |-> FALSE, used_b |-> {},
                            deviating |-> {}]
                      ELSE select_and_fit(kind, fitter.flux_finite, wavelength,
                                          m.kwds, fate, deviating)
              other == run(IF fitter.kind = "ProfileFitter" THEN "ProfileMixtureFitter"
                                                            ELSE "ProfileFitter",
                           fitter._default_kwargs)
              call == [wavelength |-> wavelength, mask |-> mask, kwargs |-> kwargs,
                       as_constructed |-> run(fitter.kind, fitter.constructed).masked,
                       other |-> [outcome |-> other.outcome, used |-> other.used]]
                          @@ run(fitter.kind, fitter._default_kwargs)
          IN  fitter' = [fitter EXCEPT
                            !._default_kwargs =
                                merge_kwargs(fitter._default_kwargs, mask, kwargs).defaults,
                            !.fits = @ + 1,
                            !.last = call]
    /\ UNCHANGED <<fit_profile_vars, parser, synthesise_kwargs, cache, unpacked>>

InitFit ==
    /\ self = AtomicTransition(5, NoBlending, NoMask, <<>>)
    /\ pc = "idle"
    /\ outcome = "none"
    /\ calls = 0
    /\ arg = NoArg
    /\ data = [disp |-> SpectrumDisp, flux_finite |-> <<>>, ivar_finite |-> <<>>]
    /\ parameters = <<>>
    /\ missing_parameters = {}
    /\ theta = <<>>
    /\ finite = <<>>
    /\ continuum_mask = <<>>
    /\ aliased = FALSE
    /\ loop = NoLoop
    /\ blending_spectrum = "unbound"
    /\ opt = NoOpt
    /\ hist = NoHist
    /\ start = self
    /\ scope = "call"
    /\ parser = Unspecified
    /\ fitter = NoFitter
    /\ synthesise_kwargs = <<>>
    /\ reads = Unset
    /\ cache = NoCache
    /\ unpacked = NotUnpacked

NextFit ==
    \/ ProfileFitterInit
    \/ Fit

SpecFit == InitFit /\ [][NextFit]_vars

-----------------------------------------------------------------------------
(* lru_cache of oracle.utils: the wrapper of a positive maxsize, the dict   *)
(* `cache`, the circular doubly linked list of links [PREV, NEXT, KEY,      *)
(* RESULT], and the threads calling the wrapper.  A `with lock:` block is   *)
(* one step; the lock is free while the wrapped function runs.              *)

\* Number of wrapper calls started on one cache.
MaxWrapperCalls == 4

\* The maxsize values of the wrappers made.
MaxSizeChoices == {1, 2}

\* The floats a wrapper is called with (in tenths): 1.0, 1.4 and 2.0.
CacheArgs == {10, 14, 20}

\* The values of the keyword `tol` (line 250): None, or 0 decimals.
TolChoices == {PyNone, PyInt(0)}

\* The list objects that can be links: the root and one link per entry.
Nodes == 0 .. (CHOOSE n \in MaxSizeChoices : \A m \in MaxSizeChoices : m <= n)

\* The tuple `args` of a call with one float; the key of line 308 is `args`
\* itself (no keywords, typed False).
ArgsTuple(k) == [t |-> "tuple", tenths |-> k]

\* Lines 187-197: simple_round rounds every float of args to tol decimals
\* (round half away from zero); line 225-226: no rounding when tol is None.
rounded_args(tol, args) ==
    IF tol = PyNone
      THEN args
      ELSE ArgsTuple(((args.tenths + 5) \div 10) * 10)

\* The wrapped function: its result names the arguments it received and which
\* of its invocations produced it.
user_function(args, n) == [t |-> "result", of |-> args.tenths, invocation |-> n]

\* A list object that is not a link of the cache.
NoLink == [PREV |-> 0, NEXT |-> 0, KEY |-> PyNone, RESULT |-> PyNone]

IdleThread == [pc |-> "idle", key |-> PyNone, result |-> PyNone, returned |-> PyNone]

NoEvent == [op |-> "none", thread |-> 0, key |-> PyNone, evicted |-> PyNone]

\* Lines 257-269: decorating_function's locals.  The root is a link that
\* points to itself; stats is [hits, misses].
decorating_function(maxsize, tol, threads) ==
    [ pc         |-> "made",
      maxsize    |-> maxsize,
      tol        |-> tol,
      cache      |-> <<>>,
      stats      |-> [HITS |-> 0, MISSES |-> 0],
      link       |-> [n \in Nodes |-> NoLink],
      root       |-> 0,
      thread     |-> [t \in threads |-> IdleThread],
      started    |-> 0,
      completed  |-> 0,
      user_calls |-> 0,
      used       |-> <<>>,
      last       |-> NoEvent ]

\* del d[k] of a dict.
dict_del(d, k) == [q \in DOMAIN d \ {k} |-> d[q]]

\* Lines 355-357: cache_info().
cache_info(c) ==
    [hits |-> c.stats.HITS, misses |-> c.stats.MISSES, maxsize |-> c.maxsize,
     currsize |-> Cardinality(DOMAIN c.cache)]

\* The keys of the linked list from the oldest link (root[NEXT]) to the newest
\* (root[PREV]); the walk stops after as many links as there are list objects.
RECURSIVE walk(_, _, _, _)
walk(link, root, n, fuel) ==
    IF n = root \/ fuel = 0
      THEN <<>>
      ELSE <<link[n].KEY>> \o walk(link, root, link[n].NEXT, fuel - 1)

linked_keys(c) == walk(c.link, c.root, c.link[c.root].NEXT, Cardinality(Nodes) + 1)

\* The same walk backwards, from the newest link to the oldest.
RECURSIVE walk_back(_, _, _, _)
walk_back(link, root, n, fuel) ==
    IF n = root \/ fuel = 0
      THEN <<>>
      ELSE <<link[n].KEY>> \o walk_back(link, root, link[n].PREV, fuel - 1)

linked_keys_back(c) ==
    walk_back(c.link, c.root, c.link[c.root].PREV, Cardinality(Nodes) + 1)

\* The recency order after a use of key k: k becomes the last element.
use(used, k) == SelectSeq(used, LAMBDA q : q # k) \o <<k>>

\* A hit that leaves the link where it is.
move_to_front_unmoved(links, root, n) == links

\* Lines 312-321: the link is unlinked and put in front of the root.
move_to_front(links, root, n) ==
    LET link_prev == links[n].PREV
        link_next == links[n].NEXT
        l1 == [links EXCEPT ![link_prev].NEXT = link_next]
        l2 == [l1 EXCEPT ![link_next].PREV = link_prev]
        last == l2[root].PREV
        l3 == [l2 EXCEPT ![last].NEXT = n]
        l4 == [l3 EXCEPT ![root].PREV = n]
        l5 == [l4 EXCEPT ![n].PREV = last]
    IN  [l5 EXCEPT ![n].NEXT = root]

\* A wrapper call (lines 306-322): the key and the first `with lock:` block.
\* A cached key is a hit, which returns the stored result; otherwise the
\* thread goes on to call the wrapped function with the lock free.
Lookup(t) ==
    /\ cache.pc = "made"
    /\ cache.thread[t].pc = "idle"
    /\ cache.started < MaxWrapperCalls
    /\ \E a \in CacheArgs :
        LET key == ArgsTuple(a)
        IN  IF key \in DOMAIN cache.cache
              THEN LET n == cache.cache[key]
                       result == cache.link[n].RESULT
                   IN  cache' = [cache EXCEPT
                          !.link = move_to_front(cache.link, cache.root, n),
                          !.stats.HITS = @ + 1,
                          !.thread[t] = [IdleThread EXCEPT !.returned = result],
                          !.started = @ + 1,
                          !.completed = @ + 1,
                          !.used = use(@, key),
                          !.last = [op |-> "hit", thread |-> t, key |-> key,
                                    evicted |-> PyNone]]
              ELSE cache' = [cache EXCEPT
                      !.thread[t] = [IdleThread EXCEPT !.pc = "call", !.key = key],
                      !.started = @ + 1,
                      !.last = [op |-> "lookup", thread |-> t, key |-> key,
                                evicted |-> PyNone]]
    /\ UNCHANGED <<fit_profile_vars, parser, fitter, synthesise_kwargs, unpacked>>

\* Lines 323-324: the arguments are rounded and the wrapped function is called;
\* it returns, or raises and the exception leaves the wrapper.
UserFunction(t) ==
    /\ cache.pc = "made"
    /\ cache.thread[t].pc = "call"
    /\ \E raises \in BOOLEAN :
        LET _args == rounded_args(cache.tol, cache.thread[t].key)
            result == user_function(_args, cache.user_calls + 1)
        IN  cache' = [cache EXCEPT
                !.user_calls = @ + 1,
                !.thread[t] = IF raises THEN IdleThread
                              ELSE [@ EXCEPT !.pc = "store", !.result = result],
                !.last = [op |-> IF raises THEN "raise" ELSE "call", thread |-> t,
                          key |-> cache.thread[t].key, evicted |-> PyNone]]
    /\ UNCHANGED <<fit_profile_vars, parser, fitter, synthesise_kwargs, unpacked>>

\* A second block that never finds its key stored.
key_in_cache_ignored(key, d) == FALSE

\* Line 327: `key in cache`, the same key was stored while the lock was free.
key_in_cache(key, d) == key \in DOMAIN d

\* Lines 325-352: the second `with lock:` block.  A key stored meanwhile is
\* left alone; on a full cache the old root takes the new key and result, and
\* the oldest link becomes the empty root; otherwise a new link is made.
Store(t) ==
    /\ cache.pc = "made"
    /\ cache.thread[t].pc = "store"
    /\ LET key == cache.thread[t].key
           result == cache.thread[t].result
           root == cache.root
           done(c, evicted) ==
               [c EXCEPT !.stats.MISSES = @ + 1,
                         !.thread[t] = [IdleThread EXCEPT !.returned = result],
                         !.completed = @ + 1,
                         !.used = use(@, key),
                         !.last = [op |-> "miss", thread |-> t, key |-> key,
                                   evicted |-> evicted]]
       IN  IF key_in_cache(key, cache.cache)
             THEN cache' = done(cache, PyNone)
             ELSE IF Cardinality(DOMAIN cache.cache) >= cache.maxsize
               THEN LET oldroot == root
                        l1 == [cache.link EXCEPT ![oldroot].KEY = key,
                                                 ![oldroot].RESULT = result]
                        newroot == l1[oldroot].NEXT
                        oldkey == l1[newroot].KEY
                        l2 == [l1 EXCEPT ![newroot].KEY = PyNone,
                                         ![newroot].RESULT = PyNone]
                    IN  IF oldkey \notin DOMAIN cache.cache
                          THEN cache' = [cache EXCEPT
                                  !.link = l2, !.root = newroot,
                                  !.thread[t] = IdleThread,
                                  !.last = [op |-> "KeyError", thread |-> t,
                                            key |-> key, evicted |-> oldkey]]
                          ELSE cache' = done([cache EXCEPT
                                  !.link = l2, !.root = newroot,
                                  !.cache = DictSet(dict_del(cache.cache, oldkey),
                                                     key, oldroot)], oldkey)
               ELSE LET last == cache.link[root].PREV
                        free == Nodes \ ({root} \cup Range(cache.cache))
                        n == CHOOSE m \in free : \A q \in free : m <= q
                        l1 == [cache.link EXCEPT ![n] =
                                 [PREV |-> last, NEXT |-> root, KEY |-> key,
                                  RESULT |-> result]]
                        l2 == [l1 EXCEPT ![last].NEXT = n]
                        l3 == [l2 EXCEPT ![root].PREV = n]
                    IN  /\ free # {}
                        /\ cache' = done([cache EXCEPT
                              !.link = l3,
                              !.cache = DictSet(cache.cache, key, n)], PyNone)
    /\ UNCHANGED <<fit_profile_vars, parser, fitter, synthesise_kwargs, unpacked>>

\* Lines 359-365: cache_clear().  The root points to itself again, the dict is
\* emptied (its links are garbage) and the statistics are [0, 0].
CacheClear ==
    /\ cache.pc = "made"
    /\ cache.last.op # "clear"
    /\ cache' = [cache EXCEPT
          !.cache = <<>>,
          !.link = [n \in Nodes |-> IF n = cache.root
                        THEN [PREV |-> n, NEXT |-> n, KEY |-> PyNone, RESULT |-> PyNone]
                        ELSE NoLink],
          !.stats = [HITS |-> 0, MISSES |-> 0],
          !.used = <<>>,
          !.completed = 0,
          !.last = [NoEvent EXCEPT !.op = "clear"]]
    /\ UNCHANGED <<fit_profile_vars, parser, fitter, synthesise_kwargs, unpacked>>

\* The wrappers made: every maxsize and tol, called by the given threads.
\* No fit_profile call is in progress and none has been made.
NoFitProfile ==
    /\ self = AtomicTransition(5, NoBlending, NoMask, <<>>)
    /\ pc = "idle"
    /\ outcome = "none"
    /\ calls = 0
    /\ arg = NoArg
    /\ data = [disp |-> SpectrumDisp, flux_finite |-> <<>>, ivar_finite |-> <<>>]
    /\ parameters = <<>>
    /\ missing_parameters = {}
    /\ theta = <<>>
    /\ finite = <<>>
    /\ continuum_mask = <<>>
    /\ aliased = FALSE
    /\ loop = NoLoop
    /\ blending_spectrum = "unbound"
    /\ opt = NoOpt
    /\ hist = NoHist
    /\ start = self
    /\ scope = "call"
    /\ reads = Unset

InitCacheWith(threads) ==
    /\ NoFitProfile
    /\ parser = Unspecified
    /\ fitter = NoFitter
    /\ synthesise_kwargs = <<>>
    /\ cache \in { decorating_function(m, tol, threads) :
                     m \in MaxSizeChoices, tol \in TolChoices }
    /\ unpacked = NotUnpacked

\* One thread.
InitCache == InitCacheWith({1})

\* Two threads.
InitCacheThreads == InitCacheWith({1, 2})

NextCache ==
    \/ \E t \in DOMAIN cache.thread : Lookup(t)
    \/ \E t \in DOMAIN cache.thread : UserFunction(t)
    \/ \E t \in DOMAIN cache.thread : Store(t)
    \/ CacheClear

SpecCache == InitCache /\ [][NextCache]_vars

SpecCacheThreads == InitCacheThreads /\ [][NextCache]_vars

-----------------------------------------------------------------------------
(* unpack_atomic_transition of oracle.utils.  Numbers are in tenths.        *)

\* Lines 31-36: the defaults of the optional fields (1.5, 1.0, 0 and 0).
_defaults ==
    [ synthesise_surrounding   |-> 15,
      opacity_contribution     |-> 10,
      van_der_waals_broadening |-> 0,
      damp2                    |-> 0 ]

\* The keyword arguments **defaults a caller gives.
DefaultsChoices == { <<>>, [k \in {"synthesise_surrounding"} |-> 20] }

\* The names of the entries of a transition written as a sequence, in order;
\* the fifth entry (damp1) is the van_der_waals_broadening of the result.
FieldNames ==
    << "wavelength", "species", "excitation_potential", "loggf",
       "van_der_waals_broadening", "damp2", "synthesise_surrounding",
       "opacity_contribution" >>

\* The sequences unpacked: four required entries and up to four optional ones.
TransitionSequences ==
    UNION { { <<47201, 261, 32, -45>> \o tail : tail \in [1..n -> {3, 7}] } : n \in 0..4 }

\* The dict with the named fields of a sequence.
as_dict(transition) ==
    [ k \in {FieldNames[i] : i \in 1..Len(transition)} |->
        transition[CHOOSE i \in 1..Len(transition) : FieldNames[i] = k] ]

\* Lines 29-72.  A transition is a dict (a function from names) or a sequence.
unpack_atomic_transition(transition, is_dict, defaults) ==
    LET d == update(_defaults, defaults)
    IN  IF is_dict
          THEN << transition["wavelength"], transition["species"],
                  transition["excitation_potential"], transition["loggf"],
                  DictGet(transition, "van_der_waals_broadening",
                          d["van_der_waals_broadening"]),
                  DictGet(transition, "damp2", d["damp2"]),
                  DictGet(transition, "synthesise_surrounding",
                          d["synthesise_surrounding"]),
                  DictGet(transition, "opacity_contribution",
                          d["opacity_contribution"]) >>
          ELSE LET n == Len(transition)
                   van_der_waals_broadening ==
                       IF n > 4 THEN transition[5] ELSE d["van_der_waals_broadening"]
                   damp2 == IF n > 5 THEN transition[6] ELSE d["damp2"]
                   \* lines 63-67: both the 7th and the 8th entry are assigned to
                   \* synthesise_surrounding
                   synthesise_surrounding ==
                       IF n > 7 THEN transition[8]
                       ELSE IF n > 6 THEN transition[7]
                       ELSE d["synthesise_surrounding"]
                   opacity_contribution == d["opacity_contribution"]
               IN  << transition[1], transition[2], transition[3], transition[4],
                      van_der_waals_broadening, damp2, synthesise_surrounding,
                      opacity_contribution >>

\* The transition is unpacked as the sequence it was written as.
UnpackSequence ==
    /\ unpacked.pc = "given"
    /\ unpacked.of_sequence = Unset
    /\ unpacked' = [unpacked EXCEPT !.of_sequence =
          Returns(unpack_atomic_transition(unpacked.transition, FALSE, unpacked.defaults))]
    /\ UNCHANGED <<fit_profile_vars, parser, fitter, synthesise_kwargs, cache>>

\* The same transition is unpacked as the dict of its named fields.
UnpackDict ==
    /\ unpacked.pc = "given"
    /\ unpacked.of_dict = Unset
    /\ unpacked' = [unpacked EXCEPT !.of_dict =
          Returns(unpack_atomic_transition(as_dict(unpacked.transition), TRUE,
                                            unpacked.defaults))]
    /\ UNCHANGED <<fit_profile_vars, parser, fitter, synthesise_kwargs, cache>>

InitUnpack ==
    /\ NoFitProfile
    /\ parser = Unspecified
    /\ fitter = NoFitter
    /\ synthesise_kwargs = <<>>
    /\ cache = NoCache
    /\ unpacked \in { [pc |-> "given", transition |-> tr, defaults |-> d,
                       of_sequence |-> Unset, of_dict |-> Unset] :
                        tr \in TransitionSequences, d \in DefaultsChoices }

NextUnpack ==
    \/ UnpackSequence
    \/ UnpackDict

SpecUnpack == InitUnpack /\ [][NextUnpack]_vars

-----------------------------------------------------------------------------
(* Properties *)

\* The call has done nothing but check its arguments: nothing is sliced,
\* synthesised, fitted, seeded or optimised, and the transition is as it was.
NothingDone ==
    /\ self = start
    /\ hist = NoHist
    /\ data.disp = SpectrumDisp
    /\ theta = <<>>
    /\ parameters = <<>>
    /\ opt = NoOpt

\* C1: when the transition wavelength is not strictly inside the dispersion
\* bounds of the supplied spectrum (the first or last dispersion value
\* included), the call gets no further than the bounds check, it ends with the
\* out-of-bounds ValueError, the wavelength is not clamped, nothing is fitted
\* and the transition is unchanged.
C1_OutOfBoundsFails ==
    (calls > 0 /\ arg.is_spectrum
        /\ (start.wavelength <= SpectrumDisp[1]
            \/ start.wavelength >= SpectrumDisp[PixCount]))
    => /\ pc \in {"check_data", "idle"}
       /\ pc = "idle" => outcome = "ValueError:out_of_bounds"
       /\ self.wavelength = start.wavelength
       /\ NothingDone

\* A call on a transition that sits on the first pixel has failed.
C1_Witness ==
    /\ pc = "idle"
    /\ outcome = "ValueError:out_of_bounds"
    /\ self.wavelength = SpectrumDisp[1]

C3_Keys ==
    {"line_depth", "fwhm"}
    \cup (IF \E k \in arg.constrain_given : k \in {"wavelength", "Wavelength"}
            THEN {"wavelength"} ELSE {})
    \cup (IF arg.continuum_order.t = "int" /\ Len(self.continuum_regions) = 0
            THEN {IF i = 0 THEN "continuum.0" ELSE "continuum.1" :
                    i \in 0..arg.continuum_order.v}
            ELSE {})
    \cup (IF ~self.blending_transitions.none /\ ArraySize(self.blending_transitions) > 0
            THEN {"blending_fwhm"} ELSE {})

\* C3: once the parameters are established (before the slice, the seeding and
\* the optimisation) they are line_depth and fwhm, wavelength iff
\* constrain_parameters has a wavelength entry in any case, continuum.0..N iff
\* continuum_order = N is given and there are no continuum_regions, and
\* blending_fwhm iff the transition has at least one blending transition; the
\* returned optimal_theta has exactly the established keys.
C3_ParameterKeys ==
    /\ pc = "slice" => Range(parameters) = C3_Keys
    /\ (pc = "idle" /\ outcome = "returned") => DOMAIN opt.returned = Range(parameters)

\* C4: the stored results change only in the step in which a call returns; a
\* call that raises leaves the transition as it was when the call started;
\* a call that returns stores its own optimal_theta and diagnostics and the
\* equivalent width of that optimal_theta.
C4_ResultsFrame ==
    [][ /\ self' # self => (pc' = "idle" /\ outcome' = "returned")
        /\ (pc # "idle" /\ pc' = "idle" /\ outcome' # "returned") => self' = start
        /\ (pc # "idle" /\ pc' = "idle" /\ outcome' = "returned")
            => /\ self'.profile.set
               /\ self'.profile.optimal_theta = opt'.returned
               /\ self'.profile.op_info.p0 = theta'
               /\ self'.profile.op_info.warnflag = opt'.warnflag
               /\ self'.equivalent_width.set
               /\ self'.equivalent_width.v = self'.profile.op_info.equivalent_width
               /\ self'.equivalent_width.v
                    = opt'.returned["line_depth"] * abs(opt'.returned["fwhm"]) ]_vars

\* A second call raised on a transition that holds the results of the first.
C4_Witness ==
    /\ calls = 2
    /\ pc = "idle"
    /\ outcome \notin {"none", "running", "returned"}
    /\ self.profile.set
    /\ self.equivalent_width.set
    /\ self = start

\* Pixel i lies in a run of two or more consecutive flagged pixels.
C5_InRun(is_outlier, i) ==
    /\ is_outlier[i]
    /\ \/ (i > 1 /\ is_outlier[i - 1])
       \/ (i < Len(is_outlier) /\ is_outlier[i + 1])

\* C5: in every round of the masker, every pixel of a run of two or more
\* consecutive flagged pixels is out of the continuum mask afterwards,
\* wherever the run lies, and every pixel that is not flagged is in the mask
\* afterwards iff it was before.
C5_RunsRemoved ==
    hist.masker.ran =>
        \A i \in DOMAIN hist.masker.is_outlier \cap DOMAIN hist.masker.after :
            /\ C5_InRun(hist.masker.is_outlier, i) => ~hist.masker.after[i]
            /\ ~hist.masker.is_outlier[i] => hist.masker.after[i] = hist.masker.before[i]

\* C6: the continuum polynomial fit of a round after the first (over a mask
\* that has one flag per pixel of the window) uses no pixel that the masker
\* excluded in the round before.
C6_ExcludedNotRefitted ==
    (pc = "estimate" /\ loop.kk > 0 /\ hist.fit_round = loop.kk
        /\ Len(finite) = Len(data.disp))
        => hist.excluded \cap hist.used = {}

\* C7: a call that has entered the refinement loop and has not failed to seed
\* its parameters completes three rounds: it ends nowhere inside the loop.
C7_ThreeRounds ==
    (pc = "idle" /\ calls > 0 /\ (loop.coefficients = "bound" \/ hist.rounds > 0)
        /\ outcome \notin {"ValueError:cannot_estimate_fwhm", "IndexError:line_centre",
                           "NameError:continuum_at_wavelength"})
        => hist.rounds = 3

\* The rejection conditions of the objective, in the claim's words.
C8_Rejected(x, bounds) ==
    \/ x["fwhm"] < 0
    \/ ~(0 < x["line_depth"] /\ x["line_depth"] < One)
    \/ ("blending_fwhm" \in DOMAIN x /\ x["blending_fwhm"] < 0)
    \/ \E q \in DOMAIN bounds \cap DOMAIN x :
          \/ (~bounds[q].lower.none /\ x[q] < bounds[q].lower.v)
          \/ (~bounds[q].upper.none /\ x[q] > bounds[q].upper.v)

\* C8: every evaluation of the objective returns the invalid sentinel iff
\* fwhm < 0, line_depth is not strictly inside (0, 1), blending_fwhm < 0 or a
\* free parameter is outside a bound given for it, and returns the chi-square
\* sum over the finite pixels for every other vector.
C8_ObjectiveSentinel ==
    opt.eval.result # "none" =>
        /\ opt.eval.result = "sentinel" <=> C8_Rejected(opt.eval.x, arg.constrain_parameters)
        /\ ~C8_Rejected(opt.eval.x, arg.constrain_parameters) => opt.eval.result = "chi_sq"

\* C9: when the seed vector holds a non-finite value, or the objective at the
\* seed is the invalid sentinel, the call has ended with the seed ValueError,
\* the optimiser was not invoked and the transition is unchanged.
C9_InvalidSeedFails ==
    (opt.p0 # <<>>
        /\ \/ \E k \in DOMAIN opt.p0 : opt.p0[k] = nan
           \/ (opt.eval.x = opt.p0 /\ opt.eval.full_output /\ opt.eval.result = "sentinel"))
    => /\ pc = "idle"
       /\ outcome \in {"ValueError:non_finite_seed", "ValueError:invalid_seed"}
       /\ hist.optimiser = 0
       /\ self = start

\* A wavelength constraint that excludes the nominal wavelength has made the
\* call fail on its seed.
C9_Witness ==
    /\ pc = "idle"
    /\ outcome = "ValueError:invalid_seed"
    /\ "wavelength" \in DOMAIN arg.constrain_parameters
    /\ ~arg.constrain_parameters["wavelength"].lower.none
    /\ arg.constrain_parameters["wavelength"].lower.v > self.wavelength
    /\ opt.p0["line_depth"] = 1

\* C10: with at least one blending transition and a stellar parameter missing
\* from initial_theta the call ends with the stellar-parameters KeyError, with
\* nothing sliced or synthesised; with no blending transition the call never
\* ends with that error.
C10_StellarParameters ==
    /\ (parameters # <<>> /\ ~self.blending_transitions.none
            /\ ArraySize(self.blending_transitions) > 0
            /\ ~(stellar_parameter_keys \subseteq arg.stellar))
        => /\ pc = "idle"
           /\ outcome = "KeyError:stellar_parameters"
           /\ ~hist.sliced
           /\ hist.synthesised = 0
    /\ (self.blending_transitions.none \/ ArraySize(self.blending_transitions) = 0)
        => outcome # "KeyError:stellar_parameters"

\* The region [start, end] and the range [lo, hi] have a point in common.
C11_Intersects(region, lo, hi) == region[1] <= hi /\ region[2] >= lo

\* C11: for a transition with continuum_regions the call ends with the
\* no-overlap ValueError iff no region of the list intersects the spectrum's
\* dispersion range: a call that went past the check has a region that
\* intersects it, and a call that failed on it has none.
C11_NoOverlapIff ==
    LET some == \E k \in DOMAIN self.continuum_regions :
                    C11_Intersects(self.continuum_regions[k], SpectrumDisp[1],
                                   SpectrumDisp[PixCount])
    IN  Len(self.continuum_regions) > 0 =>
            /\ pc = "check_surrounding" => some
            /\ (pc = "idle" /\ outcome = "ValueError:no_overlap") => ~some

\* C12: with continuum_regions and a continuum_order, the pixels a round's
\* continuum polynomial fit uses have a finite flux and lie inside one of the
\* continuum regions.
C12_FitInsideRegions ==
    (pc = "estimate" /\ hist.fit_round = loop.kk /\ Len(self.continuum_regions) > 0
        /\ arg.continuum_order.t = "int")
    => \A i \in hist.used :
          /\ i \in DOMAIN data.disp
          /\ data.flux_finite[i]
          /\ \E k \in DOMAIN self.continuum_regions :
                /\ self.continuum_regions[k][1] <= data.disp[i]
                /\ data.disp[i] <= self.continuum_regions[k][2]

\* C13: after a call has returned, the equivalent width stored on the
\* transition, the equivalent_width entry of the stored diagnostics and
\* line_depth * |fwhm| of the returned optimal_theta (times the constant
\* 1000 * 0.752634332, which is the unit of the stored value) are the same
\* number, and it is not negative.
C13_EquivalentWidthAgrees ==
    (pc = "idle" /\ outcome = "returned")
    => LET recomputed == opt.returned["line_depth"]
                            * (IF opt.returned["fwhm"] < 0 THEN -opt.returned["fwhm"]
                                                           ELSE opt.returned["fwhm"])
       IN  /\ self.equivalent_width.set
           /\ self.equivalent_width.v = recomputed
           /\ self.profile.op_info.equivalent_width = recomputed
           /\ recomputed >= 0

\* A call has returned a width that the optimiser moved away from the width
\* of the blending spectrum.
C13_Witness ==
    /\ pc = "idle"
    /\ outcome = "returned"
    /\ self.equivalent_width.v > 0
    /\ opt.returned["fwhm"] # opt.returned["blending_fwhm"]

\* C14: when the optimiser has stopped on its function-call or iteration
\* limit, the call ends by returning: what it returns and stores is the
\* optimiser's best vertex, and the stored diagnostics hold the optimiser's
\* warning flag, iteration count and function-call count.
C14_NonConvergenceReturns ==
    (pc = "idle" /\ opt.p1 # <<>> /\ opt.warnflag \in {1, 2})
    => /\ outcome = "returned"
       /\ opt.p1 = opt.sim0
       /\ opt.returned = opt.p1
       /\ self.profile.set
       /\ self.profile.optimal_theta = opt.p1
       /\ self.profile.op_info.warnflag = opt.warnflag
       /\ self.profile.op_info.num_iter = opt.num_iter
       /\ self.profile.op_info.num_funcalls = opt.num_funcalls

\* A call has returned after the optimiser hit its function-call limit with
\* a vertex other than the seed.
C14_Witness ==
    /\ pc = "idle"
    /\ outcome = "returned"
    /\ opt.warnflag = 1
    /\ opt.returned # opt.p0
    /\ self.profile.op_info.warnflag = 1

\* C15: a continuum_order that is negative or not an integer, and a
\* surrounding that is zero, negative or not a number, end the call with an
\* error at their check, with nothing sliced, synthesised, fitted or
\* optimised and the transition unchanged.
C15_BadConfigurationRejected ==
    /\ (\/ (arg.continuum_order_given.t = "int" /\ arg.continuum_order_given.v < 0)
        \/ (arg.continuum_order_given.t = "float" /\ arg.continuum_order_given.v % 2 # 0)
        \/ arg.continuum_order_given.t = "str")
        => /\ pc = "idle"
           /\ outcome \in {"TypeError:continuum_order", "ValueError:continuum_order"}
           /\ NothingDone
    /\ (\/ (arg.surrounding.t = "num" /\ arg.surrounding.v <= 0)
        \/ arg.surrounding.t = "str")
        => /\ pc = "idle"
           /\ outcome \in {"TypeError:surrounding", "ValueError:surrounding"}
           /\ NothingDone

\* The element, atomic number and ionisation level of a parse.
C16_Triple(r) == <<r.value.element, r.value.atomic_number, r.value.ionisation_level>>

\* "<symbol>" or "<symbol> <roman numeral or integer>" with a known symbol.
C16_Form(sp) ==
    /\ sp.t = "str"
    /\ LET w == split(sp.s)
       IN  /\ Len(w) \in {1, 2}
           /\ w[1] \in Range(periodic_table)
           /\ Len(w) = 2 => (is_digits(w[2]) \/ \A i \in DOMAIN w[2] : w[2][i] = "I")

\* The ionisation level such a string names.
C16_Level(w) ==
    IF Len(w) = 1 THEN 1
    ELSE IF is_digits(w[2]) THEN digits_value(w[2]) ELSE Len(w[2])

\* C16: a species string "<symbol>" or "<symbol> <roman numeral or integer>"
\* with a known symbol is parsed without error, and its element, atomic
\* number and ionisation level are those the parser gives for the equivalent
\* numeric code Z + (level - 1)/10 ("Fe I" as 26.0, "Fe II" as 26.1).
C16_StringAsCode ==
    (parser.pc = "constructed" /\ C16_Form(parser.species)) =>
        LET w == split(parser.species.s)
            z == Min({i \in DOMAIN periodic_table : periodic_table[i] = w[1]})
            code == nearest_double(10 * z + C16_Level(w) - 1)
        IN  /\ parser.result.raised = ""
            /\ C16_Triple(parser.result) = C16_Triple(_parse_species(code))

\* C17: a numeric code decodes its ionisation level as
\* round(10 * (species - floor(species))) + 1, and the species code a parse
\* returns decodes back to the same element, atomic number and ionisation
\* level.
C17_RoundTrip ==
    /\ (/\ parser.pc = "constructed"
        /\ parser.species.t = "float"
        /\ parser.result.raised = "")
        => parser.result.value.ionisation_level
               = PyInt((parser.species.tenths - 10 * (parser.species.tenths \div 10)) + 1)
    /\ parser.pc = "reconstructed"
        => /\ parser.again.raised = ""
           /\ C16_Triple(parser.again) = C16_Triple(parser.result)

\* A string that is no numeral and whose symbol is not in the table.
C18_UnknownSymbol(sp) ==
    /\ sp.t = "str"
    /\ float(sp).raised # ""
    /\ split(sp.s)[1] \notin Range(periodic_table)

\* C18: the lookup of a symbol that is not in the periodic table raises the
\* unknown-element ValueError and returns nothing, and the parse of a species
\* string with an unknown symbol fails with that error.
C18_UnknownElement ==
    /\ (/\ parser.lookup # Unset
        /\ parser.species.t = "str"
        /\ parser.species.s \notin Range(periodic_table))
        => parser.lookup.raised = "ValueError"
    /\ (parser.pc = "constructed" /\ C18_UnknownSymbol(parser.species))
        => parser.result.raised = "ValueError"

\* C19: a fitter holds no state that a fit call changes: after any sequence
\* of fit calls its stored default keywords, the mask list among them, are
\* those set at construction, and a call masks the pixels the same call masks
\* on the fitter as constructed, whatever calls ran before it.
C19_FitterStateless ==
    fitter.pc = "ready" =>
        /\ fitter._default_kwargs = fitter.constructed
        /\ fitter.last.masked = fitter.last.as_constructed

\* The transition has at least one blending transition.
C20_Blending(t) ==
    ~t.blending_transitions.none /\ ArraySize(t.blending_transitions) > 0

\* The positions of a call before the synthesiser's step is done.
C20_Before ==
    {"check_data", "check_kind", "check_continuum_order", "check_continuum_regions",
     "check_surrounding", "establish_parameters", "slice", "seed", "synthesise"}

\* C20: in every call of a sequence the synthesiser is invoked exactly once,
\* before the refinement loop, when the transition has blending transitions,
\* and never when it has none; it is invoked over
\* [wavelength - surrounding, wavelength + surrounding], with oversample 4 and
\* a wavelength step equal to the finest pixel spacing of the call's own
\* sliced data unless the caller gave those keys, also when the calls share
\* one synthesise_kwargs dict.
C20_SynthesisedPerCall ==
    /\ pc # "idle" =>
          hist.synthesised = IF C20_Blending(start) /\ pc \notin C20_Before THEN 1 ELSE 0
    /\ hist.synthesis # NoSynthesis =>
          /\ hist.synthesis.region = <<start.wavelength - arg.surrounding.v,
                                       start.wavelength + arg.surrounding.v>>
          /\ hist.synthesis.passed # "given" =>
                /\ hist.synthesis.oversample = 4
                /\ hist.synthesis.wavelength_step = hist.synthesis.pixel_size

\* The call failed on the rule of the five usable pixels.
C21_TooFew(how) == how = "ValueError:no_finite_data"

\* C21: given the same spectrum, wavelength, mask and keywords, ProfileFitter
\* and ProfileMixtureFitter fit the same pixels, and one fails for fewer than
\* 5 usable pixels exactly when the other does.
C21_SameSelection ==
    (fitter.pc = "ready" /\ fitter.last.reached) =>
        /\ C21_TooFew(fitter.last.outcome) <=> C21_TooFew(fitter.last.other.outcome)
        /\ fitter.last.used = fitter.last.other.used

\* C30: with clip_model_sigma > 0 the second fit of ProfileFitter.fit uses
\* only pixels that the first fit used and that the clipping did not find
\* deviating.
C30_ClippingOnlyRemoves ==
    (fitter.pc = "ready" /\ fitter.last.second) =>
        /\ fitter.last.used_b \subseteq fitter.last.used
        /\ fitter.last.used_b \cap fitter.last.deviating = {}

\* C22: reading reduced_equivalent_width raises AttributeError in every state
\* in which no fit_profile call of the transition has returned (before the first
\* call, and after calls that raised), and otherwise gives the logarithm of the
\* equivalent width of the latest returned call over the wavelength.
C22_ReducedEquivalentWidth ==
    reads # Unset =>
        /\ (calls = 0 \/ (calls = 1 /\ outcome # "returned"))
              => reads = Raises("AttributeError")
        /\ ~self.profile.set => reads = Raises("AttributeError")
        /\ outcome = "returned"
              => reads = Returns(np_log(profile_integrals(opt.returned), self.wavelength))
        /\ (self.profile.set /\ outcome # "returned")
              => reads = Returns(np_log(start.profile.op_info.equivalent_width,
                                        self.wavelength))

\* The property is read after a second call raised on a transition whose first
\* call returned, and the read gives the first call's value.
C22_Witness ==
    /\ calls = 2
    /\ pc = "idle"
    /\ outcome \notin {"none", "running", "returned"}
    /\ start.profile.set
    /\ reads # Unset
    /\ reads.raised = ""

\* The property is read after a call that raised and with no call returned.
C22_WitnessNoResult ==
    /\ calls >= 1
    /\ outcome \notin {"none", "running", "returned"}
    /\ reads = Raises("AttributeError")

\* The last n elements of a sequence (all of it when it is shorter).
C23_Suffix(seq, n) ==
    IF Len(seq) <= n THEN seq ELSE SubSeq(seq, Len(seq) - n + 1, Len(seq))

\* The cache holds, oldest first, the maxsize most recently used keys, each
\* with the result the wrapped function gave for it; the statistics count the
\* completed calls; a cleared cache is empty with both counters zero.
C23_State ==
    cache.pc = "made" =>
        /\ Cardinality(DOMAIN cache.cache) <= cache.maxsize
        /\ linked_keys(cache) = C23_Suffix(cache.used, cache.maxsize)
        /\ DOMAIN cache.cache = Range(linked_keys(cache))
        /\ \A k \in DOMAIN cache.cache :
              /\ cache.link[cache.cache[k]].KEY = k
              /\ cache.link[cache.cache[k]].RESULT.of
                    = rounded_args(cache.tol, k).tenths
        /\ cache_info(cache).hits + cache_info(cache).misses = cache.completed
        /\ cache.last.op = "clear" =>
              cache_info(cache) = [hits |-> 0, misses |-> 0, maxsize |-> cache.maxsize,
                                   currsize |-> 0]

\* A call whose key is cached completes at once with the stored result, calls
\* nothing and makes its key the newest; a completed miss on a full cache
\* removes the oldest key and nothing else.
C23_Step ==
    /\ (cache'.started = cache.started + 1 /\ cache'.last.key \in DOMAIN cache.cache)
         => LET k == cache'.last.key
            IN  /\ cache'.completed = cache.completed + 1
                /\ cache'.user_calls = cache.user_calls
                /\ cache'.thread[1].returned = cache.link[cache.cache[k]].RESULT
                /\ linked_keys(cache')[Len(linked_keys(cache'))] = k
                /\ DOMAIN cache'.cache = DOMAIN cache.cache
                /\ cache'.stats.HITS = cache.stats.HITS + 1
    /\ (cache'.started = cache.started + 1 /\ cache'.last.key \notin DOMAIN cache.cache)
         => /\ cache'.completed = cache.completed
            /\ cache'.thread[1].pc = "call"
    /\ (cache'.stats.MISSES = cache.stats.MISSES + 1
          /\ Cardinality(DOMAIN cache.cache) = cache.maxsize)
         => /\ cache'.last.evicted = linked_keys(cache)[1]
            /\ DOMAIN cache'.cache
                  = (DOMAIN cache.cache \ {cache.used[Len(cache.used) - cache.maxsize + 1]})
                      \cup {cache'.last.key}

\* C23: with one thread calling an lru_cache wrapper of positive maxsize N, the
\* cache never holds more than N entries, a call with a cached key returns the
\* stored result without calling the wrapped function and makes the key the
\* most recently used, a miss on a full cache evicts exactly the least
\* recently used key, hits + misses is the number of completed calls, and
\* cache_clear empties the cache and zeroes both counters.
C23_LeastRecentlyUsed == []C23_State /\ [][C23_Step]_vars

\* A miss has evicted the oldest key of a cache that has also been hit.
C23_Witness ==
    /\ cache.pc = "made"
    /\ DOMAIN cache.thread = {1}
    /\ cache.last.op = "miss"
    /\ cache.last.evicted # PyNone
    /\ cache.stats.HITS > 0
    /\ cache.maxsize = 2

\* The elements of a sequence in reverse order.
C28_Reverse(seq) == [i \in 1..Len(seq) |-> seq[Len(seq) + 1 - i]]

\* C28: with two threads calling one wrapper in any interleaving (the lock is
\* free while the wrapped function runs), in every state the dict and the
\* circular linked list hold the same keys, each key once and in one link, the
\* list reads the same forwards and backwards, and there are at most maxsize
\* entries.
C28_DictMatchesList ==
    cache.pc = "made" =>
        /\ Range(linked_keys(cache)) = DOMAIN cache.cache
        /\ Len(linked_keys(cache)) = Cardinality(DOMAIN cache.cache)
        /\ linked_keys_back(cache) = C28_Reverse(linked_keys(cache))
        /\ \A k \in DOMAIN cache.cache : cache.link[cache.cache[k]].KEY = k
        /\ \A j, k \in DOMAIN cache.cache : cache.cache[j] = cache.cache[k] => j = k
        /\ cache.root \notin Range(cache.cache)
        /\ Cardinality(DOMAIN cache.cache) <= cache.maxsize

\* Two threads missed on the same key at the same time: one has stored it and
\* the other is about to, on a cache whose other thread has also evicted a key.
C28_Witness ==
    /\ cache.pc = "made"
    /\ DOMAIN cache.thread = {1, 2}
    /\ cache.thread[1].pc = "store"
    /\ cache.last.op = "miss"
    /\ cache.last.thread = 2
    /\ cache.last.key = cache.thread[1].key
    /\ cache.thread[1].key \in DOMAIN cache.cache

\* A thread evicts a key while the other thread is between its miss and its
\* store.
C28_WitnessEviction ==
    /\ cache.pc = "made"
    /\ DOMAIN cache.thread = {1, 2}
    /\ cache.last.op = "miss"
    /\ cache.last.evicted # PyNone
    /\ cache.thread[3 - cache.last.thread].pc \in {"call", "store"}

\* C24: whatever subset of the free parameters initial_theta gives, seeding
\* ends with a value for every free parameter (the assertion of line 526
\* holds) or with the cannot-estimate-FWHM error, raised only when fwhm has to
\* be estimated; the estimates of lines 420-470 raise nothing else.
C24_SeedingCoversEverySubset ==
    /\ outcome \notin {"NameError:continuum_at_wavelength", "IndexError:line_centre"}
    /\ outcome = "ValueError:cannot_estimate_fwhm" => "fwhm" \in missing_parameters
    /\ pc = "assert" => Range(parameters) \subseteq DOMAIN theta

\* C25: in every round in which line_depth is estimated the estimate is clipped
\* with the caller's initial_line_depth_tolerance when the caller gave one and
\* with 1e-3 otherwise, the same in every round; an estimated fwhm is strictly
\* positive.
C25_SeededInsideBounds ==
    (pc = "masker" /\ outcome = "running") =>
        /\ "line_depth" \in missing_parameters =>
              /\ loop.kwargs = "absent" => loop.tolerance = "default"
              /\ loop.kwargs # "absent" => loop.tolerance = "given"
        /\ "fwhm" \in missing_parameters => Gt(theta["fwhm"], 0)

\* C26: a call on a transition without blending transitions whose seed is
\* finite and inside the bounds does not fail for want of a blending spectrum:
\* the objective is evaluated with its diagnostic spectra and the call goes on.
C26_NoBlendingNoFailure ==
    (/\ self.blending_transitions.none
     /\ blending_spectrum = "None"
     /\ opt.p0 # <<>>
     /\ ~physically_invalid(opt.p0)
     /\ opt.eval.x = opt.p0)
        => /\ opt.eval.result # "AttributeError"
           /\ outcome # "AttributeError"

\* The vector lies inside every bound of constrain_parameters that names one
\* of its parameters.
C27_InsideBounds(x, cp) ==
    \A q \in DOMAIN cp \cap DOMAIN x :
        /\ cp[q].lower.none \/ cp[q].lower.v <= x[q]
        /\ cp[q].upper.none \/ x[q] <= cp[q].upper.v

\* C27: the vector a call returns, which is the vector it stores, has
\* 0 < line_depth < 1, fwhm >= 0, blending_fwhm >= 0 and lies inside every bound
\* of constrain_parameters.
C27_ReturnedVectorAccepted ==
    (pc = "idle" /\ outcome = "returned") =>
        LET x == opt.returned
        IN  /\ self.profile.optimal_theta = x
            /\ \A k \in DOMAIN x : x[k] # nan
            /\ 0 < x["line_depth"] /\ x["line_depth"] < One
            /\ x["fwhm"] >= 0
            /\ "blending_fwhm" \in DOMAIN x => x["blending_fwhm"] >= 0
            /\ C27_InsideBounds(x, arg.constrain_parameters)

\* A call with a bound on one of its parameters returned a vector other than
\* its seed, after the optimiser had tried a point the objective rejects.
C27_Witness ==
    /\ pc = "idle"
    /\ outcome = "returned"
    /\ opt.returned # opt.p0
    /\ \E q \in DOMAIN arg.constrain_parameters \cap DOMAIN opt.returned :
          ~arg.constrain_parameters[q].lower.none
    /\ opt.num_funcalls > 1

\* C29: a transition written as a sequence of 4 to 8 entries unpacks to the
\* same 8-tuple as the dict of its named fields: the 7th entry is the tuple's
\* synthesise_surrounding, the 8th its opacity_contribution, and a field that
\* is not given takes its default.
C29_SequenceAsDict ==
    (unpacked.pc = "given" /\ unpacked.of_sequence # Unset) =>
        LET tr == unpacked.transition
            t == unpacked.of_sequence.value
            d == update(_defaults, unpacked.defaults)
        IN  /\ unpacked.of_dict # Unset => unpacked.of_sequence = unpacked.of_dict
            /\ \A i \in 1..8 :
                 t[i] = IF i <= Len(tr) THEN tr[i] ELSE d[FieldNames[i]]

====
